---- MODULE Spec2Model ----
(***************************************************************************)
(* Country-entity normalization and classification of the data-preparation *)
(* pipeline (steps/step_02_cleaning.py and its collaborators).             *)
(*                                                                         *)
(* Entity names are TLA+ strings; the character-level operations of the    *)
(* code (str.strip, str.lower, the `in` substring test, str.endswith) are   *)
(* computed character by character with Len and SubSeq.                    *)
(*                                                                         *)
(* TLC keeps eight-bit characters only, so the four accented letters of    *)
(* the tables are written with the ASCII characters that follow 'z' and    *)
(* keep their relative code-point order:                                   *)
(*     {  is  C-cedilla (capital)        |  is  O-circumflex (capital)     *)
(*     }  is  c-cedilla (small)          ~  is  o-circumflex (small)       *)
(* "C~te d'Ivoire" is the name spelled with o-circumflex, "Cura}ao" the    *)
(* name spelled with c-cedilla.  For the same reason the two whitespace    *)
(* characters above U+007F are written with ASCII characters that occur in *)
(* no name:                                                                *)
(*     ^  is  U+0085 (next line)         _  is  U+00A0 (no-break space)    *)
(***************************************************************************)
EXTENDS Integers, Sequences, FiniteSets, TLC

(***************************************************************************)
(* Bounds of the model.                                                    *)
(***************************************************************************)
\* longest list of names drawn from PoolNames
MaxNames == 2
\* longest whitespace padding put on one side of a name
MaxPad == 1

(***************************************************************************)
(* Python string primitives.                                               *)
(***************************************************************************)
\* the characters str.strip() removes.  Python strips every Unicode
\* whitespace character: code points 0x09-0x0d, 0x1c-0x20, 0x85, 0xa0, 0x1680,
\* 0x2000-0x200a, 0x2028, 0x2029, 0x202f, 0x205f, 0x3000.  Listed here are
\* the twelve below U+0100, in code-point order: tab, line feed, vertical
\* tab (0x0b), form feed, carriage return, the four separators 0x1c-0x1f,
\* space, next line (0x85, written ^) and no-break space (0xa0, written _).
\* No input of the model holds a character above U+00FF.
Whitespace ==
  { "\t", "\n", "", "\f", "\r", "", "", "", "", " ",
    "^", "_" }

CharAt(s, i) == SubSeq(s, i, i)

\* the capitals among the characters of the model, each above its small
\* letter: the ASCII letters and the two accented capitals
Capitals == "ABCDEFGHIJKLMNOPQRSTUVWXYZ|{"
Smalls == "abcdefghijklmnopqrstuvwxyz~}"

LowerOf ==
  [ c \in { CharAt(Capitals, i) : i \in 1..Len(Capitals) } |->
      CharAt(Smalls, CHOOSE i \in 1..Len(Capitals) : CharAt(Capitals, i) = c) ]

\* str.lower() on one character
LowerChar(c) == IF c \in DOMAIN LowerOf THEN LowerOf[c] ELSE c

RECURSIVE Lower(_)
Lower(s) == IF s = "" THEN "" ELSE LowerChar(CharAt(s, 1)) \o Lower(Tail(s))

RECURSIVE LStrip(_)
LStrip(s) ==
  IF s = "" THEN ""
  ELSE IF CharAt(s, 1) \in Whitespace THEN LStrip(Tail(s)) ELSE s

RECURSIVE RStrip(_)
RStrip(s) ==
  IF s = "" THEN ""
  ELSE IF CharAt(s, Len(s)) \in Whitespace
       THEN RStrip(SubSeq(s, 1, Len(s) - 1)) ELSE s

\* str.strip()
Strip(s) == RStrip(LStrip(s))

\* `p in s` on strings
Contains(s, p) ==
  \E i \in 1..(Len(s) - Len(p) + 1) : SubSeq(s, i, i + Len(p) - 1) = p

\* s.endswith(p)
EndsWith(s, p) ==
  /\ Len(p) <= Len(s)
  /\ SubSeq(s, Len(s) - Len(p) + 1, Len(s)) = p

\* the characters of the modelled names in code-point order
CodePointOrder ==
  "\t\n\f\r '(),-.ABCDEFGHIJKLMNOPQRSTUVWXYZabcdefghijklmnopqrstuvwxyz^_{|}~"

Ord(c) == CHOOSE i \in 1..Len(CodePointOrder) : CharAt(CodePointOrder, i) = c

\* a < b on strings (lexicographic by code point)
RECURSIVE StrLess(_, _)
StrLess(a, b) ==
  IF b = "" THEN FALSE
  ELSE IF a = "" THEN TRUE
  ELSE IF CharAt(a, 1) = CharAt(b, 1) THEN StrLess(Tail(a), Tail(b))
  ELSE Ord(CharAt(a, 1)) < Ord(CharAt(b, 1))

\* sorted(S) for a set of strings
RECURSIVE Sorted(_)
Sorted(S) ==
  IF S = {} THEN <<>>
  ELSE LET m == CHOOSE x \in S : \A y \in S \ {x} : StrLess(x, y)
       IN <<m>> \o Sorted(S \ {m})

(***************************************************************************)
(* Optional values (None / a value).                                       *)
(***************************************************************************)
None == <<>>
Some(x) == <<x>>

(***************************************************************************)
(* Static tables of steps/step_02_cleaning.py.                             *)
(***************************************************************************)
KEEP_ORIGINAL_NAMES ==
  { "Kosovo", "Curacao", "Cura}ao", "Taiwan", "Hong Kong", "Macao", "Macau",
    "Palestine", "Western Sahara", "Puerto Rico", "Guam", "American Samoa",
    "British Virgin Islands", "U.S. Virgin Islands", "Faroe Islands",
    "Greenland", "New Caledonia", "French Polynesia", "Gibraltar", "Bermuda",
    "Cayman Islands", "Aruba", "Sint Maarten", "Bonaire", "Channel Islands",
    "Isle of Man", "Falkland Islands", "Montserrat",
    "Turks and Caicos Islands", "Anguilla", "Saint Helena",
    "Wallis and Futuna", "Saint Pierre and Miquelon", "Cook Islands", "Niue",
    "Tokelau", "Nauru" }

SIMPLE_COUNTRY_ALIASES ==
  ("USA" :> "United States") @@ ("US" :> "United States") @@
  ("U.S." :> "United States") @@ ("U.S.A." :> "United States") @@
  ("United States of America" :> "United States") @@
  ("UK" :> "United Kingdom") @@ ("U.K." :> "United Kingdom") @@
  ("Great Britain" :> "United Kingdom") @@ ("Britain" :> "United Kingdom") @@
  ("Russia" :> "Russia") @@ ("South Korea" :> "South Korea") @@
  ("North Korea" :> "North Korea") @@ ("Iran" :> "Iran") @@
  ("Syria" :> "Syria") @@ ("Venezuela" :> "Venezuela") @@
  ("Bolivia" :> "Bolivia") @@ ("Tanzania" :> "Tanzania") @@
  ("Vietnam" :> "Vietnam") @@ ("Laos" :> "Laos") @@ ("Brunei" :> "Brunei") @@
  ("Moldova" :> "Moldova") @@ ("Czech Republic" :> "Czechia") @@
  ("Czechia" :> "Czechia") @@ ("Ivory Coast" :> "Cote d'Ivoire") @@
  ("C~te d'Ivoire" :> "Cote d'Ivoire") @@ ("Cape Verde" :> "Cabo Verde") @@
  ("Swaziland" :> "Eswatini") @@ ("Macedonia" :> "North Macedonia") @@
  ("Burma" :> "Myanmar") @@ ("East Timor" :> "Timor-Leste") @@
  ("Democratic Republic of Congo" :> "DR Congo") @@
  ("Democratic Republic of the Congo" :> "DR Congo") @@
  ("Congo, The Democratic Republic of the" :> "DR Congo") @@
  ("DRC" :> "DR Congo") @@ ("Congo-Kinshasa" :> "DR Congo") @@
  ("Republic of Congo" :> "Congo") @@ ("Congo-Brazzaville" :> "Congo") @@
  ("Republic of the Congo" :> "Congo") @@ ("Vatican" :> "Vatican City") @@
  ("Vatican City State" :> "Vatican City") @@
  ("Holy See" :> "Vatican City") @@
  ("Holy See (Vatican City State)" :> "Vatican City") @@
  ("The Bahamas" :> "Bahamas") @@ ("The Gambia" :> "Gambia") @@
  ("Federated States of Micronesia" :> "Micronesia") @@
  ("Micronesia, Federated States of" :> "Micronesia")

AliasKeys == DOMAIN SIMPLE_COUNTRY_ALIASES
AliasValues == { SIMPLE_COUNTRY_ALIASES[k] : k \in AliasKeys }

(***************************************************************************)
(* utils/country.py: the aggregate predicate and the ISO / region lookups. *)
(* Its tables and predicates follow the specification's data model         *)
(* (AggregateSet with its substring / suffix patterns, RegionMap).         *)
(***************************************************************************)
AggregateSet == { "World", "Africa", "European Union", "High income", "USSR" }

\* patterns are compared against the lower-cased name
AggregateSubstrings == { "(excl." }
AggregateSuffixes == { "income countries" }

MatchesAggregatePattern(name) ==
  LET name_lower == Lower(name)
  IN \/ \E p \in AggregateSubstrings : Contains(name_lower, p)
     \/ \E p \in AggregateSuffixes : EndsWith(name_lower, p)

is_aggregate(name) ==
  \/ name \in AggregateSet
  \/ MatchesAggregatePattern(name)

RegionMap ==
  ("FRA" :> "Europe") @@ ("GBR" :> "Europe") @@ ("DEU" :> "Europe") @@
  ("CZE" :> "Europe") @@ ("RUS" :> "Europe") @@ ("MDA" :> "Europe") @@
  ("MKD" :> "Europe") @@ ("VAT" :> "Europe") @@ ("POL" :> "Europe") @@
  ("USA" :> "North America") @@ ("BHS" :> "North America") @@
  ("PRI" :> "North America") @@ ("GRL" :> "North America") @@
  ("NGA" :> "Africa") @@ ("CIV" :> "Africa") @@ ("COG" :> "Africa") @@
  ("COD" :> "Africa") @@ ("TZA" :> "Africa") @@ ("SWZ" :> "Africa") @@
  ("CPV" :> "Africa") @@ ("GMB" :> "Africa") @@
  ("CHN" :> "Asia") @@ ("IND" :> "Asia") @@ ("VNM" :> "Asia") @@
  ("KOR" :> "Asia") @@ ("PRK" :> "Asia") @@ ("IRN" :> "Asia") @@
  ("TWN" :> "Asia") @@ ("SYR" :> "Asia") @@ ("MMR" :> "Asia") @@
  ("TLS" :> "Asia") @@ ("BRN" :> "Asia") @@ ("LAO" :> "Asia") @@
  ("BRA" :> "South America") @@ ("BOL" :> "South America") @@
  ("VEN" :> "South America") @@
  ("AUS" :> "Oceania") @@ ("FSM" :> "Oceania")

Regions ==
  { "Africa", "Asia", "Europe", "North America", "South America", "Oceania" }

(***************************************************************************)
(* The country-name authority consulted by pycountry.countries.get(name=), *)
(* for a subset of the ISO 3166-1 records.                                  *)
(* A record is <<alpha_3, name, common_name>>; common_name is None when    *)
(* the record has none.  The lookup indexes the `name` field only and      *)
(* compares lower-cased values.                                            *)
(***************************************************************************)
Rec(a, n, c) == [alpha_3 |-> a, name |-> n, common_name |-> c]

AuthorityRecords ==
  { Rec("FRA", "France", None), Rec("USA", "United States", None),
    Rec("GBR", "United Kingdom", None), Rec("DEU", "Germany", None),
    Rec("NGA", "Nigeria", None), Rec("BRA", "Brazil", None),
    Rec("AUS", "Australia", None), Rec("CHN", "China", None),
    Rec("IND", "India", None), Rec("CZE", "Czechia", None),
    Rec("CIV", "C~te d'Ivoire", None), Rec("COG", "Congo", None),
    Rec("COD", "Congo, The Democratic Republic of the", None),
    Rec("RUS", "Russian Federation", None),
    Rec("BRN", "Brunei Darussalam", None),
    Rec("LAO", "Lao People's Democratic Republic", None),
    Rec("POL", "Poland", None), Rec("JPN", "Japan", None),
    Rec("ABW", "Aruba", None), Rec("CUW", "Cura}ao", None),
    Rec("MMR", "Myanmar", None), Rec("SWZ", "Eswatini", None),
    Rec("MKD", "North Macedonia", None), Rec("CPV", "Cabo Verde", None),
    Rec("TLS", "Timor-Leste", None), Rec("BHS", "Bahamas", None),
    Rec("GMB", "Gambia", None),
    Rec("VAT", "Holy See (Vatican City State)", None),
    Rec("FSM", "Micronesia, Federated States of", None),
    Rec("HKG", "Hong Kong", None), Rec("MAC", "Macao", None),
    Rec("PRI", "Puerto Rico", None), Rec("GRL", "Greenland", None),
    Rec("NRU", "Nauru", None),
    Rec("BOL", "Bolivia, Plurinational State of", Some("Bolivia")),
    Rec("VNM", "Viet Nam", Some("Vietnam")),
    Rec("KOR", "Korea, Republic of", None),
    Rec("PRK", "Korea, Democratic People's Republic of", None),
    Rec("IRN", "Iran, Islamic Republic of", None),
    Rec("TWN", "Taiwan, Province of China", Some("Taiwan")),
    Rec("TZA", "Tanzania, United Republic of", Some("Tanzania")),
    Rec("VEN", "Venezuela, Bolivarian Republic of", Some("Venezuela")),
    Rec("SYR", "Syrian Arab Republic", None),
    Rec("MDA", "Moldova, Republic of", Some("Moldova")) }

\* the index of the authority on the field `name`: the records by the
\* lower-cased value of the field
AuthorityIndex ==
  [ v \in { Lower(r.name) : r \in AuthorityRecords } |->
      { r \in AuthorityRecords : Lower(r.name) = v } ]

\* variant of countries_get: substring match instead of equality
countries_get_partial(name) ==
  LET value == Lower(name)
  IN UNION { AuthorityIndex[v] :
               v \in { w \in DOMAIN AuthorityIndex : Contains(w, value) } }

\* pycountry.countries.get(name=name): the matching records (none or one)
countries_get(name) ==
  LET value == Lower(name)
  IN IF value \in DOMAIN AuthorityIndex THEN AuthorityIndex[value] ELSE {}

\* The data of the authority belongs to the iso-codes release that the
\* installed pycountry carries; the program pins no version of pycountry, so
\* a run meets any of the releases below.  AuthorityRecords holds the
\* records as the earliest of them has them.
VARIABLE
  release   \* the iso-codes release of the installed pycountry

Releases == { "before 4.7.0", "4.7.0 to 4.12", "4.13.0 and later" }

\* common names that iso-codes 4.7.0 added to a record, by alpha_3
AddedIn_4_7 == ("KOR" :> "South Korea") @@ ("PRK" :> "North Korea")

\* common names that iso-codes 4.13.0 added to a record, by alpha_3
AddedIn_4_13 == ("IRN" :> "Iran") @@ ("SYR" :> "Syria") @@ ("LAO" :> "Laos")

\* the common names a release has that the earliest one lacks, by alpha_3
AddedCommonNames ==
  [ rel \in Releases |->
      CASE rel = "before 4.7.0" -> [ a \in {} |-> "" ]
        [] rel = "4.7.0 to 4.12" -> AddedIn_4_7
        [] rel = "4.13.0 and later" -> AddedIn_4_7 @@ AddedIn_4_13 ]

\* the common_name attribute of a record in release rel
common_name(rel, r) ==
  IF r.alpha_3 \in DOMAIN AddedCommonNames[rel]
  THEN Some(AddedCommonNames[rel][r.alpha_3])
  ELSE r.common_name

\* getattr(country, "common_name", country.name) in release rel
PreferredNameIn(rel, r) ==
  IF common_name(rel, r) # None THEN common_name(rel, r)[1] ELSE r.name

\* getattr(country, "common_name", country.name) in the installed release
PreferredName(r) == PreferredNameIn(release, r)

\* the lookup of this name reaches a record that differs between releases
ReleaseDependent(name) ==
  \E r \in countries_get(Strip(name)) :
    \E rel \in Releases : r.alpha_3 \in DOMAIN AddedCommonNames[rel]

\* The release installed where a run looks up the names of a list: either
\* release when a name reaches a record that differs between them; when none
\* does, the authority answers every lookup of the run alike in both
\* releases and the earliest one stands for all of them.
Installed(list) ==
  release \in IF \E i \in 1..Len(list) : ReleaseDependent(list[i])
              THEN Releases ELSE { "before 4.7.0" }

\* ISO alpha-3 of a canonical name: exact lookup by name, None when absent
get_country_iso(name) ==
  IF countries_get(name) = {} THEN None
  ELSE Some((CHOOSE r \in countries_get(name) : TRUE).alpha_3)

\* variant: a missing or unmapped code is labelled instead of left absent
get_region_other(iso) ==
  IF iso = None THEN Some("Other")
  ELSE IF iso[1] \in DOMAIN RegionMap THEN Some(RegionMap[iso[1]])
  ELSE Some("Other")

\* region of an optional ISO code, None when the code is absent or unmapped
get_region(iso) ==
  IF iso = None THEN None
  ELSE IF iso[1] \in DOMAIN RegionMap THEN Some(RegionMap[iso[1]]) ELSE None

(***************************************************************************)
(* safe_standardize_country_name.  The body is computed once as a path:    *)
(* the string returned, the return statement taken and the lookups the     *)
(* call consulted on its way.                                              *)
(***************************************************************************)
Path(r, e, s) == [returned |-> r, exit |-> e, steps |-> s]

\* variant: a lookup miss of the authority escapes as an exception
safe_standardize_path_uncaught(name) ==
  IF name = "" THEN Path(name, "empty", <<>>)
  ELSE LET n == Strip(name) IN
    IF n \in KEEP_ORIGINAL_NAMES THEN Path(n, "keep", <<"keep">>)
    ELSE IF is_aggregate(n) THEN Path(n, "aggregate", <<"keep", "aggregate">>)
    ELSE IF n \in DOMAIN SIMPLE_COUNTRY_ALIASES
      THEN Path(SIMPLE_COUNTRY_ALIASES[n], "alias",
                <<"keep", "aggregate", "alias">>)
    ELSE IF countries_get(n) # {}
      THEN Path(PreferredName(CHOOSE r \in countries_get(n) : TRUE),
                "authority", <<"keep", "aggregate", "alias", "authority">>)
    ELSE Path(n, "raised", <<"keep", "aggregate", "alias", "authority">>)

\* variant: the aggregate test comes after the alias and authority lookups
safe_standardize_path_aggregate_last(name) ==
  IF name = "" THEN Path(name, "empty", <<>>)
  ELSE LET n == Strip(name) IN
    IF n \in KEEP_ORIGINAL_NAMES THEN Path(n, "keep", <<"keep">>)
    ELSE IF n \in DOMAIN SIMPLE_COUNTRY_ALIASES
      THEN Path(SIMPLE_COUNTRY_ALIASES[n], "alias", <<"keep", "alias">>)
    ELSE IF countries_get(n) # {}
      THEN Path(PreferredName(CHOOSE r \in countries_get(n) : TRUE),
                "authority", <<"keep", "alias", "authority">>)
    ELSE IF is_aggregate(n)
      THEN Path(n, "aggregate", <<"keep", "alias", "authority", "aggregate">>)
    ELSE Path(n, "unmatched", <<"keep", "alias", "authority", "aggregate">>)

\* variant: no keep-original check
safe_standardize_path_no_keep(name) ==
  IF name = "" THEN Path(name, "empty", <<>>)
  ELSE LET n == Strip(name) IN
    IF is_aggregate(n) THEN Path(n, "aggregate", <<"aggregate">>)
    ELSE IF n \in DOMAIN SIMPLE_COUNTRY_ALIASES
      THEN Path(SIMPLE_COUNTRY_ALIASES[n], "alias", <<"aggregate", "alias">>)
    ELSE IF countries_get(n) # {}
      THEN Path(PreferredName(CHOOSE r \in countries_get(n) : TRUE),
                "authority", <<"aggregate", "alias", "authority">>)
    ELSE Path(n, "unmatched", <<"aggregate", "alias", "authority">>)

\* variant: the authority lookup comes before the alias table
safe_standardize_path_authority_first(name) ==
  IF name = "" THEN Path(name, "empty", <<>>)
  ELSE LET n == Strip(name) IN
    IF n \in KEEP_ORIGINAL_NAMES THEN Path(n, "keep", <<"keep">>)
    ELSE IF is_aggregate(n) THEN Path(n, "aggregate", <<"keep", "aggregate">>)
    ELSE IF countries_get(n) # {}
      THEN Path(PreferredName(CHOOSE r \in countries_get(n) : TRUE),
                "authority", <<"keep", "aggregate", "authority">>)
    ELSE IF n \in DOMAIN SIMPLE_COUNTRY_ALIASES
      THEN Path(SIMPLE_COUNTRY_ALIASES[n], "alias",
                <<"keep", "aggregate", "authority", "alias">>)
    ELSE Path(n, "unmatched", <<"keep", "aggregate", "authority", "alias">>)

\* variant: the keep-original and alias lookups ignore letter case
safe_standardize_path_nocase(name) ==
  IF name = "" THEN Path(name, "empty", <<>>)
  ELSE LET n == Strip(name)
           nl == Lower(n)
           keep == { k \in KEEP_ORIGINAL_NAMES : Lower(k) = nl }
           keys == { k \in DOMAIN SIMPLE_COUNTRY_ALIASES : Lower(k) = nl }
       IN
    IF keep # {} THEN Path(CHOOSE k \in keep : TRUE, "keep", <<"keep">>)
    ELSE IF is_aggregate(n) THEN Path(n, "aggregate", <<"keep", "aggregate">>)
    ELSE IF keys # {}
      THEN Path(SIMPLE_COUNTRY_ALIASES[CHOOSE k \in keys : TRUE], "alias",
                <<"keep", "aggregate", "alias">>)
    ELSE IF countries_get(n) # {}
      THEN Path(PreferredName(CHOOSE r \in countries_get(n) : TRUE),
                "authority", <<"keep", "aggregate", "alias", "authority">>)
    ELSE Path(n, "unmatched", <<"keep", "aggregate", "alias", "authority">>)

\* the body of safe_standardize_country_name where release rel is installed
safe_standardize_path_in(rel, name) ==
  IF name = "" THEN Path(name, "empty", <<>>)
  ELSE LET n == Strip(name) IN
    IF n \in KEEP_ORIGINAL_NAMES THEN Path(n, "keep", <<"keep">>)
    ELSE IF is_aggregate(n) THEN Path(n, "aggregate", <<"keep", "aggregate">>)
    ELSE IF n \in DOMAIN SIMPLE_COUNTRY_ALIASES
      THEN Path(SIMPLE_COUNTRY_ALIASES[n], "alias",
                <<"keep", "aggregate", "alias">>)
    ELSE IF countries_get(n) # {}
      THEN Path(PreferredNameIn(rel, CHOOSE r \in countries_get(n) : TRUE),
                "authority", <<"keep", "aggregate", "alias", "authority">>)
    ELSE Path(n, "unmatched", <<"keep", "aggregate", "alias", "authority">>)

safe_standardize_path(name) == safe_standardize_path_in(release, name)

safe_standardize_country_name(name) == safe_standardize_path(name).returned

(***************************************************************************)
(* classify: the tagged outcome of one call.  A name returned by the       *)
(* keep-original, alias or authority step is a Country; the aggregate      *)
(* return is an Aggregate; the empty and the unmatched returns are         *)
(* Unrecognized.  ISO code and region are derived for a Country only.      *)
(***************************************************************************)
Tags == { "Aggregate", "Country", "Unrecognized" }

TagOf(exit) ==
  CASE exit \in { "keep", "alias", "authority" } -> "Country"
    [] exit = "aggregate" -> "Aggregate"
    [] exit \in { "empty", "unmatched" } -> "Unrecognized"
    [] OTHER -> "Error"

\* the outcome of a call on name that took path p
classify_path(name, p) ==
  LET tag == TagOf(p.exit)
      canon == IF tag = "Country" THEN Some(p.returned) ELSE None
      iso == IF tag = "Country" THEN get_country_iso(p.returned) ELSE None
  IN [ tag |-> tag,
       original_name |-> name,
       returned |-> p.returned,
       canonical_name |-> canon,
       iso_alpha3 |-> iso,
       region |-> get_region(iso),
       exit |-> p.exit,
       steps |-> p.steps ]

classify(name) == classify_path(name, safe_standardize_path(name))

(***************************************************************************)
(* validateEntities: the names of a list bucketed by the tag classify      *)
(* gives them.  Duplicates are retained in every bucket and the input      *)
(* order is kept.                                                          *)
(***************************************************************************)
RECURSIVE SelectTag(_, _)
SelectTag(list, tag) ==
  IF list = <<>> THEN <<>>
  ELSE IF classify(Head(list)).tag = tag
       THEN <<Head(list)>> \o SelectTag(Tail(list), tag)
       ELSE SelectTag(Tail(list), tag)

validateEntities(list) ==
  LET v == SelectTag(list, "Country")
      u == SelectTag(list, "Unrecognized")
      a == SelectTag(list, "Aggregate")
  IN [ valid |-> v, invalid |-> u, aggregates |-> a,
       counts |-> [ valid |-> Len(v), invalid |-> Len(u),
                    aggregates |-> Len(a) ] ]

(***************************************************************************)
(* deriveRegionColumn: the region column added to rows that carry an       *)
(* entity name and, when an ISO column is supplied, an optional ISO code.  *)
(* names[i] is the name of row i; isocol is None when no ISO column is     *)
(* supplied and Some(column) otherwise, a cell of the column being None    *)
(* for a missing code.                                                     *)
(***************************************************************************)
\* the row has a usable code in the supplied ISO column
HasIso(isocol, i) ==
  /\ isocol # None
  /\ isocol[1][i] # None
  /\ isocol[1][i][1] # ""

\* variant: the region always comes from the classified name
deriveRegionColumn_by_name(rownames, isocol) ==
  [ i \in 1..Len(rownames) |-> classify(rownames[i]).region ]

deriveRegionColumn(rownames, isocol) ==
  [ i \in 1..Len(rownames) |->
      IF HasIso(isocol, i) THEN get_region(isocol[1][i])
      ELSE classify(rownames[i]).region ]

(***************************************************************************)
(* The cleaning stage on the country column of a data frame.  A row is     *)
(* [id, country]: id is the row's position in the raw frame, country is    *)
(* None for a missing value (NaN) and Some(name) otherwise.                *)
(***************************************************************************)
Row(i, c) == [id |-> i, country |-> c]

\* lambda x: is_aggregate(str(x)) if pd.notna(x) else False
aggregate_mask(row) ==
  IF row.country # None THEN is_aggregate(row.country[1]) ELSE FALSE

\* variant of DropMasked: the last row is never examined
DropMasked_skip_last(rows) ==
  LET RECURSIVE Go(_)
      Go(rs) ==
        IF Len(rs) <= 1 THEN rs
        ELSE IF aggregate_mask(Head(rs)) THEN Go(Tail(rs))
             ELSE <<Head(rs)>> \o Go(Tail(rs))
  IN Go(rows)

\* df[~aggregate_mask]: the rows outside the mask, in their order
RECURSIVE DropMasked(_)
DropMasked(rows) ==
  IF rows = <<>> THEN <<>>
  ELSE IF aggregate_mask(Head(rows))
       THEN DropMasked(Tail(rows))
       ELSE <<Head(rows)>> \o DropMasked(Tail(rows))

filter_aggregate_entities(df) ==
  LET df_filtered == DropMasked(df)
      removed_entities ==
        { df[i].country[1] : i \in { j \in 1..Len(df) : aggregate_mask(df[j]) } }
  IN [ df |-> df_filtered,
       stats |-> [ filtered |-> TRUE,
                   original_rows |-> Len(df),
                   filtered_rows |-> Len(df_filtered),
                   removed_rows |-> Len(df) - Len(df_filtered),
                   removed_entities |-> Sorted(removed_entities),
                   removed_count |-> Cardinality(removed_entities) ] ]

\* lambda x: safe_standardize_country_name(str(x)) if pd.notna(x) else x
standardize_cell(c) ==
  IF c # None THEN Some(safe_standardize_country_name(c[1])) ELSE c

\* df[actual_col].unique(): the values of the column in the order of their
\* first appearance
RECURSIVE Unique(_)
Unique(cells) ==
  IF cells = <<>> THEN <<>>
  ELSE LET front == Unique(SubSeq(cells, 1, Len(cells) - 1))
           last == cells[Len(cells)]
       IN IF \E i \in 1..Len(front) : front[i] = last THEN front
          ELSE Append(front, last)

\* the non-missing cells of a list of cells, as the strings handed on
NotNa(cells) ==
  LET kept == SelectSeq(cells, LAMBDA c : c # None)
  IN [ i \in 1..Len(kept) |-> kept[i][1] ]

\* the arguments of the calls of safe_standardize_country_name that one run
\* of standardize_country_column makes: one per distinct non-missing value
\* while the mappings are collected, then one per non-missing row in apply
standardize_invocations(df) ==
  LET column == [ i \in 1..Len(df) |-> df[i].country ]
  IN NotNa(Unique(column)) \o NotNa(column)

standardize_country_column(df) ==
  LET original_values == { df[i].country : i \in 1..Len(df) }
      changed == { c \in original_values :
                     /\ c # None
                     /\ safe_standardize_country_name(c[1]) # c[1] }
  IN [ df |-> [ i \in 1..Len(df) |->
                  Row(df[i].id, standardize_cell(df[i].country)) ],
       stats |-> [ standardized |-> TRUE,
                   original_unique |-> Cardinality(original_values),
                   mapped_count |-> Cardinality(changed),
                   mappings |-> { <<c[1], safe_standardize_country_name(c[1])>> :
                                    c \in changed } ] ]

(***************************************************************************)
(* Inputs.                                                                 *)
(***************************************************************************)
\* strings of at most k characters of W
RECURSIVE WsStrings(_, _)
WsStrings(W, k) ==
  IF k = 0 THEN { "" }
  ELSE LET S == WsStrings(W, k - 1)
       IN S \cup { w \o c : w \in S, c \in W }

\* names outside the tables: unknown names, pattern aggregates, spellings
\* that differ from a table entry in letter case only
ExtraNames ==
  { "Atlantis", "Middle Earth", "Asia (excl. China)", "Europe (EXCL. Russia)",
    "Low-income countries", "HIGH INCOME COUNTRIES", "Income countries of Asia",
    "world", "usa", "kosovo", "france", "FRANCE", "c~te d'ivoire",
    "C|TE D'IVOIRE", "viet nam", "czech republic", "poland", "cura}ao",
    "aruba", "japan" }

BaseNames ==
  KEEP_ORIGINAL_NAMES \cup AliasKeys \cup AliasValues \cup AggregateSet
    \cup { r.name : r \in AuthorityRecords }
    \cup { r.common_name[1] :
             r \in { q \in AuthorityRecords : q.common_name # None } }
    \cup UNION { { AddedCommonNames[rel][a] :
                     a \in DOMAIN AddedCommonNames[rel] } : rel \in Releases }
    \cup ExtraNames

\* names that are also tried with whitespace around them
PadNames ==
  { "", "Kosovo", "World", "USA", "France", "Atlantis", "Asia (excl. China)",
    "Viet Nam" }

\* the whitespace characters tried on both sides of a name at once
BothSidesWhitespace == { " ", "\t", "\n" }

\* the paddings tried: on one side every string of at most MaxPad whitespace
\* characters; on both sides at once the strings of BothSidesWhitespace, at
\* most MaxPad on a side and MaxPad + 1 together
Paddings ==
  { << w, "" >> : w \in WsStrings(Whitespace, MaxPad) }
    \cup { << "", w >> : w \in WsStrings(Whitespace, MaxPad) }
    \cup { p \in WsStrings(BothSidesWhitespace, MaxPad)
                   \X WsStrings(BothSidesWhitespace, MaxPad) :
              Len(p[1]) + Len(p[2]) <= MaxPad + 1 }

Inputs ==
  BaseNames \cup { p[1] \o n \o p[2] : p \in Paddings, n \in PadNames }

PoolNames ==
  { "World", "USA", "France", "High income", "Atlantis", "Kosovo",
    "C~te d'Ivoire", "Ivory Coast" }

RECURSIVE ListsUpTo(_, _)
ListsUpTo(S, k) ==
  IF k = 0 THEN { <<>> }
  ELSE LET L == ListsUpTo(S, k - 1)
       IN L \cup { Append(l, x) : l \in L, x \in S }

Scenario1 == << "World", "USA", "France", "High income", "Atlantis" >>

\* spellings of one keep-original name and of one alias key that differ in
\* surrounding whitespace or in letter case
Variants == << " Kosovo ", "kosovo", " USA", "usa" >>

InputLists ==
  { <<n>> : n \in Inputs } \cup (ListsUpTo(PoolNames, MaxNames) \ { <<>> })
    \cup { Scenario1, Variants }

\* the raw frame holding a list of names in its country column, with a row
\* of missing country in front when na holds
RawFrame(list, na) ==
  LET cells == IF na THEN <<None>> \o [ i \in 1..Len(list) |-> Some(list[i]) ]
               ELSE [ i \in 1..Len(list) |-> Some(list[i]) ]
  IN [ i \in 1..Len(cells) |-> Row(i, cells[i]) ]

(***************************************************************************)
(* Concurrent calls.  The tables are module-level objects of the process;  *)
(* a call of safe_standardize_country_name reads them statement by          *)
(* statement and holds its own local `name`.                               *)
(***************************************************************************)
MaxThreads == 2

Threads == 1..MaxThreads

StaticTables ==
  [ keep |-> KEEP_ORIGINAL_NAMES,
    aliases |-> SIMPLE_COUNTRY_ALIASES,
    aggregates |-> AggregateSet,
    regions |-> RegionMap ]

Idle == [ pc |-> "idle", arg |-> "", name |-> "", result |-> None ]

\* arguments of the concurrent calls: one for every return statement
ConcArgs == { "", " Kosovo", "World", "USA", "France", "Atlantis" }

\* variant: a call stores its result in the alias table for later calls
tables_after_return_memo(tbl, name, result) ==
  [ tbl EXCEPT !.aliases = (name :> result) @@ @ ]

\* the tables as a returning call leaves them: the function assigns to no
\* global and calls no mutating method on one
tables_after_return(tbl, name, result) == tbl

(***************************************************************************)
(* main.py.  The script first executes its `from ... import ...`           *)
(* statements, each of which looks the imported names up among the         *)
(* top-level definitions of the module named, then calls main(), whose     *)
(* body calls the stages one after the other.                              *)
(***************************************************************************)
\* the functions defined at the top level of each step module
ModuleDefs ==
  [ step_00_download |->
      { "get_owid_co2_dataset", "get_sustainable_energy_dataset",
        "get_countries_of_world_dataset" },
    step_01_quality_assessment |->
      { "pluralize_polish", "assess_source_credibility",
        "analyze_temporal_coverage", "analyze_geographic_coverage",
        "analyze_variable_coverage", "categorize_coverage",
        "assess_dataset_quality", "find_column", "try_get_numeric_stats",
        "assess_key_variables", "assess_data_usability",
        "run_quality_assessment" },
    step_02_cleaning |->
      { "pluralize_polish", "safe_standardize_country_name",
        "standardize_country_column", "filter_aggregate_entities",
        "parse_numeric_string", "fix_data_types", "validate_ranges",
        "standardize_columns", "clean_owid_co2", "clean_sustainable_energy",
        "clean_countries_2023", "generate_cleaning_report", "run_cleaning" },
    step_03_merging |->
      { "merge_owid_sustainable", "add_country_metadata", "validate_merge",
        "analyze_merge_coverage", "generate_merging_report",
        "save_merged_data", "run_step_03" },
    step_04_eda |->
      { "compute_descriptive_stats", "analyze_key_variables",
        "compute_correlation_analysis", "analyze_temporal_trends",
        "analyze_by_region", "create_distribution_plots",
        "create_correlation_plot", "create_scatter_plots",
        "create_trend_plots", "generate_eda_report", "save_eda_outputs",
        "run_step_04" },
    step_05_feature_engineering |->
      { "add_log_transforms", "add_polynomial_features",
        "add_change_features", "add_categorical_features",
        "add_ratio_features", "add_lag_features", "generate_feature_report",
        "save_features_data", "run_step_05" },
    step_06_outliers |->
      { "detect_outliers_multiple_methods", "identify_extreme_cases",
        "analyze_known_outliers", "create_outlier_plots",
        "generate_outliers_report", "save_outliers_outputs", "run_step_06" },
    step_07_missing_data |->
      { "compute_missing_stats", "analyze_missing_by_country",
        "analyze_missing_by_year", "analyze_missing_patterns", "impute_data",
        "create_missing_plots", "generate_missing_report",
        "save_missing_outputs", "run_step_07" },
    step_08_final_selection |->
      { "select_countries", "select_years", "select_variables",
        "validate_final_dataset", "generate_selection_report",
        "save_final_data", "run_step_08" },
    step_09_export |->
      { "export_to_csv", "export_to_parquet", "generate_codebook",
        "generate_summary_stats", "generate_export_report", "run_step_09" } ]

\* the `from steps.<module> import <names>` statements of main.py, in order
MainImports ==
  << [ module |-> "step_00_download",
       names |-> { "get_owid_co2_dataset", "get_sustainable_energy_dataset",
                   "get_countries_of_world_dataset" } ],
     [ module |-> "step_01_quality_assessment", names |-> { "run_step_01" } ],
     [ module |-> "step_02_cleaning", names |-> { "run_step_02" } ],
     [ module |-> "step_03_merging", names |-> { "run_step_03" } ],
     [ module |-> "step_04_eda", names |-> { "run_step_04" } ],
     [ module |-> "step_05_feature_engineering", names |-> { "run_step_05" } ],
     [ module |-> "step_06_outliers", names |-> { "run_step_06" } ],
     [ module |-> "step_07_missing_data", names |-> { "run_step_07" } ],
     [ module |-> "step_08_final_selection", names |-> { "run_step_08" } ],
     [ module |-> "step_09_export", names |-> { "run_step_09" } ] >>

\* the body of main(): the stages in call order, each with the function it
\* calls and the stage whose returned frames are passed to it (None for
\* the download, which takes no frame)
MainBody ==
  << [ stage |-> 0, callee |-> "step_00", input |-> None ],
     [ stage |-> 1, callee |-> "run_step_01", input |-> Some(0) ],
     [ stage |-> 2, callee |-> "run_step_02", input |-> Some(0) ],
     [ stage |-> 3, callee |-> "run_step_03", input |-> Some(2) ],
     [ stage |-> 4, callee |-> "run_step_04", input |-> Some(3) ],
     [ stage |-> 5, callee |-> "run_step_05", input |-> Some(4) ],
     [ stage |-> 6, callee |-> "run_step_06", input |-> Some(5) ],
     [ stage |-> 7, callee |-> "run_step_07", input |-> Some(6) ],
     [ stage |-> 8, callee |-> "run_step_08", input |-> Some(7) ],
     [ stage |-> 9, callee |-> "run_step_09", input |-> Some(8) ] >>

NotRun == [ pc |-> "none", next |-> 1, bound |-> {}, ran |-> <<>>,
            error |-> None ]

(***************************************************************************)
(* State.                                                                  *)
(***************************************************************************)
VARIABLES
  names,    \* the list of raw entity names handed to the classifier
  calls,    \* calls[i]: the outcome of classify(names[i]), in call order
  again,    \* again[i]: the outcome of classifying calls[i]'s canonical name
  buckets,  \* None, or Some(result of validateEntities(names))
  raw,      \* the frame as loaded (never changed)
  frame,    \* the frame as the cleaning function holds it
  stage,    \* position in the cleaning function
  stats,    \* stats of the cleaning steps done so far
  invoked   \* arguments of the safe_standardize_country_name calls that
            \* the cleaning function has made, in call order

VARIABLES
  isos,     \* None, or Some(the ISO column that goes with names): isos[1][i]
            \* is None for a missing code and Some(code) otherwise
  regions   \* None, or Some(the region column deriveRegionColumn added)

VARIABLES
  tables,   \* the module-level tables as the running process holds them
  threads   \* threads[t]: a call of safe_standardize_country_name in
            \* progress: its argument, position, local name and result

VARIABLES
  main      \* the run of main.py: position, names bound by its imports,
            \* stages run so far, and the exception it ended with, if any

cleanVars == << names, calls, again, buckets, raw, frame, stage, stats, invoked >>
regionVars == << isos, regions >>
concVars == << tables, threads >>
baseVars == << release, cleanVars, regionVars, concVars, main >>

\* the state of the step functions that are examined on their own
VARIABLES
  ranges,   \* validate_ranges: the frame given, the frame and stats returned
  imputation,   \* impute_data: the frame given, the frame being imputed, the step reached
  selection,   \* run_step_08: the frame given, the frame being selected, the step reached, the stats
  merging,   \* merge_owid_sustainable: the two frames given, the merged frame and stats returned
  outliers,   \* run_step_06: the frame given, the caller's frame, what was derived, the step reached
  hf,   \* huggingface_from_sqlite: arguments, position, connection, out_dir on disk, outcome
  cache,   \* dataset loaders: cache directories on disk, the upstream data, the last call
  resolving,   \* filter_aggregate_entities / standardize_country_column on a frame with named columns: the call and what it returned
  report   \* ReportBuilder: contents, counters, the methods invoked

stepVars == << ranges, imputation, selection, merging, outliers, hf, cache, resolving, report >>

\* no step function is under examination
StepsIdle ==
  /\ ranges = None
  /\ imputation = None
  /\ selection = None
  /\ merging = None
  /\ outliers = None
  /\ hf = None
  /\ cache = None
  /\ resolving = None
  /\ report = None

\* only ranges is under examination, in state v
Only_ranges(v) ==
  /\ ranges = v
  /\ imputation = None
  /\ selection = None
  /\ merging = None
  /\ outliers = None
  /\ hf = None
  /\ cache = None
  /\ resolving = None
  /\ report = None

\* everything but ranges
but_ranges == << baseVars, imputation, selection, merging, outliers, hf, cache, resolving, report >>

\* only imputation is under examination, in state v
Only_imputation(v) ==
  /\ imputation = v
  /\ ranges = None
  /\ selection = None
  /\ merging = None
  /\ outliers = None
  /\ hf = None
  /\ cache = None
  /\ resolving = None
  /\ report = None

\* everything but imputation
but_imputation == << baseVars, ranges, selection, merging, outliers, hf, cache, resolving, report >>

\* only selection is under examination, in state v
Only_selection(v) ==
  /\ selection = v
  /\ ranges = None
  /\ imputation = None
  /\ merging = None
  /\ outliers = None
  /\ hf = None
  /\ cache = None
  /\ resolving = None
  /\ report = None

\* everything but selection
but_selection == << baseVars, ranges, imputation, merging, outliers, hf, cache, resolving, report >>

\* only merging is under examination, in state v
Only_merging(v) ==
  /\ merging = v
  /\ ranges = None
  /\ imputation = None
  /\ selection = None
  /\ outliers = None
  /\ hf = None
  /\ cache = None
  /\ resolving = None
  /\ report = None

\* everything but merging
but_merging == << baseVars, ranges, imputation, selection, outliers, hf, cache, resolving, report >>

\* only outliers is under examination, in state v
Only_outliers(v) ==
  /\ outliers = v
  /\ ranges = None
  /\ imputation = None
  /\ selection = None
  /\ merging = None
  /\ hf = None
  /\ cache = None
  /\ resolving = None
  /\ report = None

\* everything but outliers
but_outliers == << baseVars, ranges, imputation, selection, merging, hf, cache, resolving, report >>

\* only hf is under examination, in state v
Only_hf(v) ==
  /\ hf = v
  /\ ranges = None
  /\ imputation = None
  /\ selection = None
  /\ merging = None
  /\ outliers = None
  /\ cache = None
  /\ resolving = None
  /\ report = None

\* everything but hf
but_hf == << baseVars, ranges, imputation, selection, merging, outliers, cache, resolving, report >>

\* only cache is under examination, in state v
Only_cache(v) ==
  /\ cache = v
  /\ ranges = None
  /\ imputation = None
  /\ selection = None
  /\ merging = None
  /\ outliers = None
  /\ hf = None
  /\ resolving = None
  /\ report = None

\* everything but cache
but_cache == << baseVars, ranges, imputation, selection, merging, outliers, hf, resolving, report >>

\* only resolving is under examination, in state v
Only_resolving(v) ==
  /\ resolving = v
  /\ ranges = None
  /\ imputation = None
  /\ selection = None
  /\ merging = None
  /\ outliers = None
  /\ hf = None
  /\ cache = None
  /\ report = None

\* everything but resolving
but_resolving == << baseVars, ranges, imputation, selection, merging, outliers, hf, cache, report >>

\* only report is under examination, in state v
Only_report(v) ==
  /\ report = v
  /\ ranges = None
  /\ imputation = None
  /\ selection = None
  /\ merging = None
  /\ outliers = None
  /\ hf = None
  /\ cache = None
  /\ resolving = None

\* everything but report
but_report == << baseVars, ranges, imputation, selection, merging, outliers, hf, cache, resolving >>

\* end of the step-function state

others == << release, regionVars, concVars, main, stepVars >>
vars == << cleanVars, others >>

\* nothing of the cleaning function, the region derivation, the concurrent
\* calls or main.py is in progress
\* (the frames that the step functions are given hold no name whose lookup
\* depends on the release)
BaseIdle ==
  /\ names = <<>>
  /\ Installed(names)
  /\ calls = <<>>
  /\ again = <<>>
  /\ buckets = None
  /\ raw = <<>>
  /\ frame = <<>>
  /\ stage = "raw"
  /\ stats = [ aggregate_filtering |-> None, country_standardization |-> None ]
  /\ invoked = <<>>
  /\ isos = None
  /\ regions = None
  /\ tables = StaticTables
  /\ threads = [ t \in Threads |-> Idle ]
  /\ main = NotRun

Init ==
  /\ names \in InputLists
  /\ Installed(names)
  /\ calls = <<>>
  /\ again = <<>>
  /\ buckets = None
  /\ \E na \in BOOLEAN : raw = RawFrame(names, na)
  /\ frame = raw
  /\ stage = "raw"
  /\ stats = [ aggregate_filtering |-> None, country_standardization |-> None ]
  /\ invoked = <<>>
  /\ isos = None
  /\ regions = None
  /\ tables = StaticTables
  /\ threads = [ t \in Threads |-> Idle ]
  /\ main = NotRun
  /\ StepsIdle

\* one call classify(names[i]) for the next name of the list
Classify ==
  /\ Len(calls) < Len(names)
  /\ calls' = Append(calls, classify(names[Len(calls) + 1]))
  /\ UNCHANGED << names, again, buckets, raw, frame, stage, stats, invoked >>
  /\ UNCHANGED others

\* a canonical name obtained earlier is classified again
Reclassify ==
  \E i \in 1..Len(calls) :
    /\ i \notin DOMAIN again
    /\ \A j \in 1..(i - 1) : calls[j].tag = "Country" => j \in DOMAIN again
    /\ calls[i].tag = "Country"
    /\ again' = again @@ (i :> classify(calls[i].canonical_name[1]))
    /\ UNCHANGED << names, calls, buckets, raw, frame, stage, stats, invoked >>
    /\ UNCHANGED others

ValidateEntities ==
  /\ buckets = None
  /\ buckets' = Some(validateEntities(names))
  /\ UNCHANGED << names, calls, again, raw, frame, stage, stats, invoked >>
  /\ UNCHANGED others

\* clean_*: step "filter aggregates"
FilterAggregateEntities ==
  /\ stage = "raw"
  /\ LET r == filter_aggregate_entities(frame)
     IN /\ frame' = r.df
        /\ stats' = [ stats EXCEPT !.aggregate_filtering = Some(r.stats) ]
  /\ stage' = "filtered"
  /\ UNCHANGED << names, calls, again, buckets, raw, invoked >>
  /\ UNCHANGED others

\* clean_*: step "standardize country names"
StandardizeCountryColumn ==
  /\ stage = "filtered"
  /\ LET r == standardize_country_column(frame)
     IN /\ frame' = r.df
        /\ stats' = [ stats EXCEPT !.country_standardization = Some(r.stats) ]
  /\ invoked' = invoked \o standardize_invocations(frame)
  /\ stage' = "standardized"
  /\ UNCHANGED << names, calls, again, buckets, raw >>
  /\ UNCHANGED others

Next ==
  \/ Classify
  \/ Reclassify
  \/ ValidateEntities
  \/ FilterAggregateEntities
  \/ StandardizeCountryColumn

Spec == Init /\ [][Next]_vars

(***************************************************************************)
(* Region derivation: rows with a name and an ISO code, classified one by   *)
(* one and given a region column.                                          *)
(***************************************************************************)
MaxRows == 2

RegionNames == { "France", "USA", "World", "Atlantis", "Ivory Coast" }

IsoCells == { None, Some(""), Some("FRA"), Some("NGA"), Some("ZZZ") }

\* rows with ISO codes FRA, USA, NGA
Scenario3Names == << "France", "United States", "Nigeria" >>
Scenario3Isos == << Some("FRA"), Some("USA"), Some("NGA") >>

RegionInputs ==
  { << l, c >> :
      l \in ListsUpTo(RegionNames, MaxRows) \ { <<>> },
      c \in { None } \cup { Some(k) : k \in ListsUpTo(IsoCells, MaxRows) } }

InitRegion ==
  /\ \E in \in RegionInputs \cup { << Scenario3Names, Some(Scenario3Isos) >> } :
       /\ in[2] # None => Len(in[2][1]) = Len(in[1])
       /\ names = in[1]
       /\ isos = in[2]
  /\ Installed(names)
  /\ regions = None
  /\ calls = <<>>
  /\ again = <<>>
  /\ buckets = None
  /\ raw = RawFrame(names, FALSE)
  /\ frame = raw
  /\ stage = "raw"
  /\ stats = [ aggregate_filtering |-> None, country_standardization |-> None ]
  /\ invoked = <<>>
  /\ tables = StaticTables
  /\ threads = [ t \in Threads |-> Idle ]
  /\ main = NotRun
  /\ StepsIdle

DeriveRegionColumn ==
  /\ regions = None
  /\ regions' = Some(deriveRegionColumn(names, isos))
  /\ UNCHANGED << release, cleanVars, isos, concVars, main, stepVars >>

NextRegion ==
  \/ Classify
  \/ DeriveRegionColumn

SpecRegion == InitRegion /\ [][NextRegion]_vars

(***************************************************************************)
(* Calls of safe_standardize_country_name running at once, one statement  *)
(* at a time each.                                                         *)
(***************************************************************************)
InitConc ==
  /\ \E a \in [ Threads -> ConcArgs ] :
       /\ threads = [ t \in Threads |->
                        [ pc |-> "start", arg |-> a[t], name |-> a[t],
                          result |-> None ] ]
       /\ names = [ t \in 1..MaxThreads |-> a[t] ]
  /\ Installed(names)
  /\ tables = StaticTables
  /\ calls = <<>>
  /\ again = <<>>
  /\ buckets = None
  /\ raw = RawFrame(names, FALSE)
  /\ frame = raw
  /\ stage = "raw"
  /\ stats = [ aggregate_filtering |-> None, country_standardization |-> None ]
  /\ invoked = <<>>
  /\ isos = None
  /\ regions = None
  /\ main = NotRun
  /\ StepsIdle

\* thread t goes on to position p
Goto(t, p) ==
  /\ threads' = [ threads EXCEPT ![t].pc = p ]
  /\ UNCHANGED tables

\* thread t returns r
Return(t, r) ==
  /\ threads' = [ threads EXCEPT ![t].pc = "done", ![t].result = Some(r) ]
  /\ tables' = tables_after_return(tables, threads[t].name, r)

\* if not name or pd.isna(name): return name
CheckEmpty(t) ==
  /\ threads[t].pc = "start"
  /\ IF threads[t].name = "" THEN Return(t, threads[t].name)
     ELSE Goto(t, "strip")
  /\ UNCHANGED << release, cleanVars, regionVars, main, stepVars >>

\* name = str(name).strip()
StripName(t) ==
  /\ threads[t].pc = "strip"
  /\ threads' = [ threads EXCEPT ![t].pc = "keep",
                                 ![t].name = Strip(threads[t].name) ]
  /\ UNCHANGED << release, tables, cleanVars, regionVars, main, stepVars >>

\* if name in KEEP_ORIGINAL_NAMES: return name
CheckKeep(t) ==
  /\ threads[t].pc = "keep"
  /\ IF threads[t].name \in tables.keep THEN Return(t, threads[t].name)
     ELSE Goto(t, "aggregate")
  /\ UNCHANGED << release, cleanVars, regionVars, main, stepVars >>

\* if is_aggregate(name): return name
CheckAggregate(t) ==
  /\ threads[t].pc = "aggregate"
  /\ IF \/ threads[t].name \in tables.aggregates
        \/ MatchesAggregatePattern(threads[t].name)
     THEN Return(t, threads[t].name)
     ELSE Goto(t, "alias")
  /\ UNCHANGED << release, cleanVars, regionVars, main, stepVars >>

\* if name in SIMPLE_COUNTRY_ALIASES: return SIMPLE_COUNTRY_ALIASES[name]
CheckAlias(t) ==
  /\ threads[t].pc = "alias"
  /\ IF threads[t].name \in DOMAIN tables.aliases
     THEN Return(t, tables.aliases[threads[t].name])
     ELSE Goto(t, "authority")
  /\ UNCHANGED << release, cleanVars, regionVars, main, stepVars >>

\* country = pycountry.countries.get(name=name); return its preferred name,
\* or name when there is none
LookupAuthority(t) ==
  /\ threads[t].pc = "authority"
  /\ LET found == countries_get(threads[t].name)
     IN IF found # {} THEN Return(t, PreferredName(CHOOSE r \in found : TRUE))
        ELSE Return(t, threads[t].name)
  /\ UNCHANGED << release, cleanVars, regionVars, main, stepVars >>

NextConc ==
  \E t \in Threads :
    \/ CheckEmpty(t)
    \/ StripName(t)
    \/ CheckKeep(t)
    \/ CheckAggregate(t)
    \/ CheckAlias(t)
    \/ LookupAuthority(t)

SpecConc == InitConc /\ [][NextConc]_vars

(***************************************************************************)
(* A run of main.py over the datasets at hand.                             *)
(***************************************************************************)
InitMain ==
  /\ names \in InputLists
  /\ Installed(names)
  /\ calls = <<>>
  /\ again = <<>>
  /\ buckets = None
  /\ \E na \in BOOLEAN : raw = RawFrame(names, na)
  /\ frame = raw
  /\ stage = "raw"
  /\ stats = [ aggregate_filtering |-> None, country_standardization |-> None ]
  /\ invoked = <<>>
  /\ isos = None
  /\ regions = None
  /\ tables = StaticTables
  /\ threads = [ t \in Threads |-> Idle ]
  /\ main = [ NotRun EXCEPT !.pc = "import" ]
  /\ StepsIdle

\* a from-import whose names are all defined by the module binds them
ImportFrom ==
  /\ main.pc = "import"
  /\ main.next <= Len(MainImports)
  /\ LET imp == MainImports[main.next] IN
       /\ imp.names \subseteq ModuleDefs[imp.module]
       /\ main' = [ main EXCEPT !.next = @ + 1, !.bound = @ \cup imp.names ]
  /\ UNCHANGED << release, cleanVars, regionVars, concVars, stepVars >>

\* a from-import of a name the module does not define raises ImportError,
\* which nothing catches: the script ends before main() is called
ImportFails ==
  /\ main.pc = "import"
  /\ main.next <= Len(MainImports)
  /\ LET imp == MainImports[main.next] IN
       /\ ~(imp.names \subseteq ModuleDefs[imp.module])
       /\ main' = [ main EXCEPT !.pc = "exit", !.error = Some("ImportError") ]
  /\ UNCHANGED << release, cleanVars, regionVars, concVars, stepVars >>

NextMain ==
  \/ ImportFrom
  \/ ImportFails

SpecMain == InitMain /\ [][NextMain]_vars

(***************************************************************************)
(* validate_ranges.  A frame is a sequence of columns in column order; a   *)
(* column is [name, numeric, values], a value being None for NaN.          *)
(***************************************************************************)
Column(n, num, vals) == [ name |-> n, numeric |-> num, values |-> vals ]

\* range_rules, in the insertion order of the dict
RangeRules ==
  << [ pattern |-> "percent", min_val |-> 0, max_val |-> 100 ],
     [ pattern |-> "access", min_val |-> 0, max_val |-> 100 ],
     [ pattern |-> "_of_population", min_val |-> 0, max_val |-> 100 ],
     [ pattern |-> "year", min_val |-> 1750, max_val |-> 2100 ] >>

skip_patterns ==
  { "share_global", "share_of_temperature", "trade_co2_share", "luc",
    "change", "growth" }

\* the non-missing values of a column
Present(vals) ==
  { vals[i][1] : i \in { j \in 1..Len(vals) : vals[j] # None } }

\* Series.max() / Series.min(): NaN is skipped, all-NaN gives NaN (None)
SeriesMax(vals) ==
  IF Present(vals) = {} THEN None
  ELSE Some(CHOOSE m \in Present(vals) : \A v \in Present(vals) : v <= m)

SeriesMin(vals) ==
  IF Present(vals) = {} THEN None
  ELSE Some(CHOOSE m \in Present(vals) : \A v \in Present(vals) : m <= v)

\* the first rule whose pattern occurs in the lower-cased column name
FirstRule(col_lower) ==
  LET hits == { k \in 1..Len(RangeRules) :
                  Contains(col_lower, RangeRules[k].pattern) }
  IN IF hits = {} THEN None
     ELSE Some(RangeRules[CHOOSE k \in hits : \A h \in hits : k <= h])

\* one pass of the loop body of validate_ranges: the column as it is left
\* and the entry written to `validations`, if any
validate_column(col) ==
  LET col_lower == Lower(col.name)
      rule == FirstRule(col_lower)
  IN IF ~col.numeric \/ (\E s \in skip_patterns : Contains(col_lower, s))
          \/ rule = None
     THEN [ column |-> col, validation |-> None ]
     ELSE
       LET r == rule[1]
           below_min == Cardinality({ i \in 1..Len(col.values) :
                          col.values[i] # None /\ col.values[i][1] < r.min_val })
           above_max == Cardinality({ i \in 1..Len(col.values) :
                          col.values[i] # None /\ col.values[i][1] > r.max_val })
       IN IF below_min > 0 \/ above_max > 0
          THEN
            LET scaled == /\ r.pattern \in { "percent", "access", "_of_population" }
                          /\ SeriesMax(col.values) # None
                          /\ SeriesMax(col.values)[1] <= 1
                          /\ SeriesMin(col.values)[1] >= 0
            IN [ column |->
                   IF scaled
                   THEN Column(col.name, col.numeric,
                          [ i \in 1..Len(col.values) |->
                              IF col.values[i] = None THEN None
                              ELSE Some(col.values[i][1] * 100) ])
                   ELSE col,
                 validation |->
                   Some([ column |-> col.name,
                          expected_range |->
                            "[" \o ToString(r.min_val) \o ", "
                                \o ToString(r.max_val) \o "]",
                          below_min |-> below_min,
                          above_max |-> above_max,
                          min_value |-> SeriesMin(col.values),
                          max_value |-> SeriesMax(col.values),
                          action |->
                            IF scaled
                            THEN Some("Multiplied by 100 (was in 0-1 range)")
                            ELSE None ]) ]
          ELSE [ column |-> col, validation |-> None ]

validate_ranges(df) ==
  LET done == [ i \in 1..Len(df) |-> validate_column(df[i]) ]
      hit == SelectSeq(done, LAMBDA d : d.validation # None)
      details == [ i \in 1..Len(hit) |-> hit[i].validation[1] ]
  IN [ df |-> [ i \in 1..Len(df) |-> done[i].column ],
       stats |-> [ validated_columns |->
                     [ i \in 1..Len(details) |-> details[i].column ],
                   validation_count |-> Len(details),
                   details |-> details ] ]

MaxVals == 2

RangeValues == { None, Some(-1), Some(0), Some(1), Some(50), Some(101) }

RangeColumnNames ==
  { "renewables_percent", "Access_to_electricity", "urban_of_population",
    "gdp_growth_percent", "gdp", "year" }

RangeColumns ==
  { Column(n, TRUE, v) :
      n \in RangeColumnNames,
      v \in ListsUpTo(RangeValues, MaxVals) \ { <<>> } }
    \cup { Column("country_access", FALSE, << None >>) }

RangeFrames ==
  { << c >> : c \in RangeColumns }
    \cup { << Column("country", FALSE, << None, None >>),
              Column("access_to_electricity", TRUE, << Some(0), Some(1) >>),
              Column("renewables_percent", TRUE, << Some(101), Some(1) >>) >> }

InitRanges ==
  /\ BaseIdle
  /\ \E f \in RangeFrames : Only_ranges(Some([ df |-> f, result |-> None ]))

ValidateRanges ==
  /\ ranges # None
  /\ ranges[1].result = None
  /\ ranges' = Some([ ranges[1] EXCEPT !.result = Some(validate_ranges(ranges[1].df)) ])
  /\ UNCHANGED but_ranges

NextRanges == ValidateRanges

SpecRanges == InitRanges /\ [][NextRanges]_vars

(***************************************************************************)
(* impute_data on one column.  A row is [id, country, year, region,        *)
(* value]; country, region and value are None when missing (NaN).  Values  *)
(* are integers chosen so that every interpolation and median is exact.    *)
(***************************************************************************)
PanelRow(i, c, y, r, v) ==
  [ id |-> i, country |-> c, year |-> y, region |-> r, value |-> v ]

\* the r-th smallest member of a set of positions
Nth(S, r) == CHOOSE i \in S : Cardinality({ j \in S : j <= i }) = r

\* df.sort_values(["country", "year"]): stable, missing country last
SortedBefore(df, i, j) ==
  LET a == df[i]
      b == df[j]
  IN IF a.country # b.country
     THEN \/ a.country # None /\ b.country = None
          \/ a.country # None /\ b.country # None
               /\ StrLess(a.country[1], b.country[1])
     ELSE a.year < b.year \/ (a.year = b.year /\ i < j)

sort_values(df) ==
  [ r \in 1..Len(df) |->
      df[CHOOSE i \in 1..Len(df) :
           Cardinality({ j \in 1..Len(df) : SortedBefore(df, j, i) }) = r - 1] ]

\* Series.interpolate(method="linear"): a gap between two valid values is
\* filled on the straight line between them (equal spacing), a gap after
\* the last valid value takes that value, a gap before the first stays
interpolate(vals) ==
  [ i \in 1..Len(vals) |->
      IF vals[i] # None THEN vals[i]
      ELSE LET before == { p \in 1..(i - 1) : vals[p] # None }
               after == { n \in (i + 1)..Len(vals) : vals[n] # None }
           IN IF before = {} THEN None
              ELSE LET p == CHOOSE x \in before : \A y \in before : y <= x
                   IN IF after = {} THEN vals[p]
                      ELSE LET n == CHOOSE x \in after : \A y \in after : x <= y
                           IN Some(vals[p][1]
                                + ((vals[n][1] - vals[p][1]) * (i - p))
                                    \div (n - p)) ]

\* Series.ffill()
ffill(vals) ==
  [ i \in 1..Len(vals) |->
      IF vals[i] # None THEN vals[i]
      ELSE LET before == { p \in 1..(i - 1) : vals[p] # None }
           IN IF before = {} THEN None
              ELSE vals[CHOOSE x \in before : \A y \in before : y <= x] ]

\* Series.bfill()
bfill(vals) ==
  [ i \in 1..Len(vals) |->
      IF vals[i] # None THEN vals[i]
      ELSE LET after == { n \in (i + 1)..Len(vals) : vals[n] # None }
           IN IF after = {} THEN None
              ELSE vals[CHOOSE x \in after : \A y \in after : x <= y] ]

ffill_bfill(vals) == bfill(ffill(vals))

\* Series.median(): NaN skipped, the mean of the two middle values for an
\* even count, NaN (None) when no value is present
median(vals) ==
  LET pos == { i \in 1..Len(vals) : vals[i] # None }
      n == Cardinality(pos)
      Less(i, j) == \/ vals[i][1] < vals[j][1]
                    \/ vals[i][1] = vals[j][1] /\ i < j
      At(r) == vals[CHOOSE i \in pos :
                      Cardinality({ j \in pos : Less(j, i) }) = r - 1][1]
  IN IF n = 0 THEN None
     ELSE IF n % 2 = 1 THEN Some(At((n + 1) \div 2))
     ELSE Some((At(n \div 2) + At(n \div 2 + 1)) \div 2)

\* the value column as a sequence
ValuesOf(df) == [ i \in 1..Len(df) |-> df[i].value ]

\* df.groupby(key)[col]: the values of the group of row i, in row order
GroupValues(df, key, i) ==
  LET members == { j \in 1..Len(df) : df[j][key] = df[i][key] }
  IN [ r \in 1..Cardinality(members) |-> df[Nth(members, r)].value ]

\* the place of row i within its group
GroupRank(df, key, i) ==
  Cardinality({ j \in 1..i : df[j][key] = df[i][key] })

\* df.groupby("country")[col].transform(lambda x: x.interpolate(...)): a
\* row whose key is missing belongs to no group and gets NaN
transform_interpolate(df) ==
  [ i \in 1..Len(df) |->
      IF df[i].country = None THEN None
      ELSE interpolate(GroupValues(df, "country", i))[GroupRank(df, "country", i)] ]

\* df.groupby("country")[col].transform(lambda x: x.ffill().bfill())
transform_ffill_bfill(df) ==
  [ i \in 1..Len(df) |->
      IF df[i].country = None THEN None
      ELSE ffill_bfill(GroupValues(df, "country", i))[GroupRank(df, "country", i)] ]

\* df.groupby("region")[col].transform("median")
transform_median(df) ==
  [ i \in 1..Len(df) |->
      IF df[i].region = None THEN None
      ELSE median(GroupValues(df, "region", i)) ]

\* df[col] = vals
WithValues(df, vals) ==
  [ i \in 1..Len(df) |-> [ df[i] EXCEPT !.value = vals[i] ] ]

\* Series.fillna(fill): only missing cells take the fill value
fillna(vals, fill) ==
  [ i \in 1..Len(vals) |-> IF vals[i] = None THEN fill[i] ELSE vals[i] ]

impute_interpolate(df) ==
  LET sorted == sort_values(df)
  IN WithValues(sorted, transform_interpolate(sorted))

impute_forward_backward(df) ==
  WithValues(df, transform_ffill_bfill(df))

GroupMedian(vals) == [ i \in 1..Len(vals) |-> median(vals) ]

impute_by_group(df) ==
  WithValues(df, fillna(ValuesOf(df), transform_median(df)))

fill_global_median(df) ==
  WithValues(df, fillna(ValuesOf(df), GroupMedian(ValuesOf(df))))

\* df[col].isna().sum()
MissingCount(df) == Cardinality({ i \in 1..Len(df) : df[i].value = None })

AnyMissing(df) == \E i \in 1..Len(df) : df[i].value = None

MaxYears == 3

PanelCountries == << "A", "B" >>

PanelValues == { None, Some(0), Some(48) }

\* the region of each panel country: one region for both, or none for the
\* second
PanelRegions == { << Some("R1"), Some("R1") >>, << Some("R1"), None >> }

\* the panel in year-major order, behind it at most one row without country
Panel(vals, regs, extra) ==
  LET n == Len(PanelCountries)
      grid == [ i \in 1..(n * MaxYears) |->
                  LET c == ((i - 1) % n) + 1
                      y == ((i - 1) \div n) + 1
                  IN PanelRow(i, Some(PanelCountries[c]), y, regs[c], vals[i]) ]
  IN IF extra = None THEN grid
     ELSE Append(grid, PanelRow(Len(grid) + 1, None, 1, Some("R1"), extra))

InitImpute ==
  /\ BaseIdle
  /\ \E vals \in [ 1..(Len(PanelCountries) * MaxYears) -> PanelValues ],
        regs \in PanelRegions,
        extra \in { None, Some(48) },
        has_region \in BOOLEAN :
       Only_imputation(
         Some([ input |-> Panel(vals, regs, extra),
                has_region |-> has_region,
                df |-> Panel(vals, regs, extra),
                pc |-> "interpolate",
                stats |-> None ]))

ImputeStep(from, to, df) ==
  /\ imputation # None
  /\ imputation[1].pc = from
  /\ imputation' = Some([ imputation[1] EXCEPT !.pc = to, !.df = df ])
  /\ UNCHANGED but_imputation

\* step 1: interpolation in time within each country
ImputeInterpolate ==
  ImputeStep("interpolate", "ffill_bfill", impute_interpolate(imputation[1].df))

\* step 2: forward and backward fill within each country
ImputeForwardBackward ==
  ImputeStep("ffill_bfill", "region",
             impute_forward_backward(imputation[1].df))

\* step 3: regional median, when there is a region column and a gap is left
ImputeByRegion ==
  ImputeStep("region", "global",
             IF imputation[1].has_region /\ AnyMissing(imputation[1].df)
             THEN impute_by_group(imputation[1].df)
             ELSE imputation[1].df)

\* step 4: global median, when a gap is left
ImputeGlobalMedian ==
  ImputeStep("global", "stats",
             IF AnyMissing(imputation[1].df)
             THEN fill_global_median(imputation[1].df)
             ELSE imputation[1].df)

\* imputation_stats[col]
ImputeStats ==
  /\ imputation # None
  /\ imputation[1].pc = "stats"
  /\ LET missing_before == MissingCount(imputation[1].input)
         missing_after == MissingCount(imputation[1].df)
     IN imputation' =
          Some([ imputation[1] EXCEPT
                   !.pc = "done",
                   !.stats = Some([ missing_before |-> missing_before,
                                    missing_after |-> missing_after,
                                    imputed |-> missing_before - missing_after ]) ])
  /\ UNCHANGED but_imputation

NextImpute ==
  \/ ImputeInterpolate
  \/ ImputeForwardBackward
  \/ ImputeByRegion
  \/ ImputeGlobalMedian
  \/ ImputeStats

SpecImpute == InitImpute /\ [][NextImpute]_vars

(***************************************************************************)
(* ReportBuilder.  An entry of contents is [kind, number, text]: number is *)
(* the table or figure number written into the entry, None when the entry  *)
(* carries none.  calls lists the methods invoked, in order.               *)
(***************************************************************************)
\* `if x:` for an optional string
Truthy(x) == x # None /\ x[1] # ""

Entry(kind, number, text) == [ kind |-> kind, number |-> number, text |-> text ]

Invoked(r, method) == [ r EXCEPT !.calls = Append(@, method) ]

\* self.contents.append(...)
AppendEntry(r, e) == [ r EXCEPT !.contents = Append(@, e) ]

\* add_heading, line 46
add_heading(r, text) == AppendEntry(Invoked(r, "add_heading"), Entry("heading", None, text))

\* add_paragraph, line 52
add_paragraph(r, text) ==
  AppendEntry(Invoked(r, "add_paragraph"), Entry("paragraph", None, text))

\* add_text, line 57
add_text(r, text) == AppendEntry(Invoked(r, "add_text"), Entry("text", None, text))

\* "\n" * count
RECURSIVE Newlines(_)
Newlines(count) == IF count <= 0 THEN "" ELSE "\n" \o Newlines(count - 1)

\* add_newline, line 62
add_newline(r, count) ==
  AppendEntry(Invoked(r, "add_newline"), Entry("newline", None, Newlines(count)))

\* add_separator, line 67
add_separator(r) ==
  AppendEntry(Invoked(r, "add_separator"), Entry("separator", None, "---"))

\* "  " * indent
RECURSIVE Indent(_)
Indent(indent) == IF indent <= 0 THEN "" ELSE "  " \o Indent(indent - 1)

\* add_bullet, line 72
add_bullet(r, text, indent) ==
  AppendEntry(Invoked(r, "add_bullet"),
              Entry("bullet", None, Indent(indent) \o "- " \o text))

\* add_numbered, line 78: the number is the caller's, no counter is read
add_numbered(r, text, number) ==
  AppendEntry(Invoked(r, "add_numbered"),
              Entry("numbered", None, ToString(number) \o ". " \o text))

\* add_code, line 83: the language and the code (the fence around them is
\* left out)
add_code(r, code, language) ==
  AppendEntry(Invoked(r, "add_code"),
              Entry("code", None, language \o "\n" \o code \o "\n"))

\* add_quote, line 92, for a text of one line
add_quote(r, text) ==
  AppendEntry(Invoked(r, "add_quote"), Entry("quote", None, "> " \o text))

\* add_link, line 107
add_link(r, text, url) ==
  AppendEntry(Invoked(r, "add_link"),
              Entry("link", None, "[" \o text \o "](" \o url \o ")"))

\* variant: the counter is advanced only for a table with a caption
add_table_counted_with_caption(r, caption, rows, max_rows, numeric) ==
  LET entered == Invoked(r, "add_table")
      counted == IF Truthy(caption)
                 THEN [ entered EXCEPT !._table_count = @ + 1 ] ELSE entered
      captioned ==
        IF Truthy(caption)
        THEN AppendEntry(Invoked(counted, "add_paragraph"),
                         Entry("table_caption", Some(counted._table_count),
                               caption[1]))
        ELSE counted
  IN AppendEntry(captioned, Entry("table", None, "table_md"))

\* the default of add_table's parameter float_format, line 121
float_format == ":.2f"

Digits == { "0", "1", "2", "3", "4", "5", "6", "7", "8", "9" }

\* f"{x:{float_format}}", line 149, for a number x: the text after the
\* colon of the replacement field, float_format itself, is the format
\* specification.  Of the specifications tried here (empty, or a precision
\* and the type f, with or without a colon in front) Python formats the
\* number with "" and with ".<digits>f" and raises ValueError (Invalid
\* format specifier) for every other one.
format_raises(spec) ==
  ~ \/ spec = ""
    \/ /\ Len(spec) >= 3
       /\ CharAt(spec, 1) = "."
       /\ CharAt(spec, Len(spec)) = "f"
       /\ \A i \in 2..(Len(spec) - 1) : CharAt(spec, i) \in Digits

\* add_table(df, caption, max_rows), lines 116-158, for a frame of `rows`
\* rows; numeric holds when a column of a number type of the frame has a
\* value, not missing, among the rows displayed.  `if max_rows and
\* len(display_df) > max_rows` decides the truncation.  Formatting the
\* numbers (lines 147-150) raises after the counter was advanced and the
\* caption appended, and before the table is appended.
add_table(r, caption, rows, max_rows, numeric) ==
  LET entered == Invoked(r, "add_table")
      counted == [ entered EXCEPT !._table_count = @ + 1 ]
      captioned ==
        IF Truthy(caption)
        THEN AppendEntry(Invoked(counted, "add_paragraph"),
                         Entry("table_caption", Some(counted._table_count),
                               caption[1]))
        ELSE counted
      truncated == max_rows # None /\ max_rows[1] # 0 /\ rows > max_rows[1]
      displayed == IF truncated THEN max_rows[1] ELSE rows
      tabled == AppendEntry(captioned, Entry("table", None, "table_md"))
  IN IF numeric /\ displayed > 0 /\ format_raises(float_format)
     THEN [ captioned EXCEPT !.raised = Some("ValueError") ]
     ELSE IF truncated
     THEN add_paragraph(tabled,
                        "*... showing " \o ToString(max_rows[1]) \o " of "
                          \o ToString(rows) \o " rows*")
     ELSE tabled

\* add_simple_table, lines 160-171, for `rows` rows; numeric holds when a
\* column of the rows holds numbers only
add_simple_table(r, rows, numeric) ==
  add_table(Invoked(r, "add_simple_table"), None, rows, None, numeric)

\* add_key_value_table, lines 173-187, for a dict of `rows` items; numeric
\* holds when every value of the dict is a number, which gives the Value
\* column a number type (values of mixed types give it the object type)
add_key_value_table(r, rows, title, numeric) ==
  LET entered == Invoked(r, "add_key_value_table")
      titled == IF Truthy(title) THEN add_heading(entered, title[1]) ELSE entered
  IN add_table(titled, None, rows, None, numeric)

add_figure(r, caption, alt, width) ==
  LET entered == Invoked(r, "add_figure")
      counted == [ entered EXCEPT !._figure_count = @ + 1 ]
      numbered == ~Truthy(alt) /\ ~Truthy(caption)
      alt_text == IF Truthy(alt) THEN alt[1]
                  ELSE IF Truthy(caption) THEN caption[1]
                  ELSE "Figure " \o ToString(counted._figure_count)
      image == AppendEntry(counted,
                           Entry(IF Truthy(width) THEN "img" ELSE "image",
                                 IF numbered THEN Some(counted._figure_count)
                                 ELSE None,
                                 alt_text))
  IN IF Truthy(caption)
     THEN AppendEntry(Invoked(image, "add_paragraph"),
                      Entry("figure_caption", Some(image._figure_count),
                            caption[1]))
     ELSE image

\* add_dataset_overview, lines 230-257: a key-value table of five items,
\* of which four are strings and one an integer, and a table of `dtypes`
\* rows, one for each data type of the frame, with its integer Count column
add_dataset_overview(r, dtypes) ==
  LET entered == Invoked(r, "add_dataset_overview")
      headed == add_heading(entered, "Dataset Overview")
      keyed == add_key_value_table(headed, 5, None, FALSE)
  IN add_table(add_heading(keyed, "Data Types"), None, dtypes, None, TRUE)

\* add_missing_summary, lines 259-281, for a frame of which `missing`
\* columns have missing values above the threshold; the table holds their
\* counts and percentages and is given max_rows=30
add_missing_summary(r, missing) ==
  LET headed == add_heading(Invoked(r, "add_missing_summary"),
                            "Missing Data Summary")
  IN IF missing = 0
     THEN add_paragraph(headed, "No missing values found.")
     ELSE add_table(add_paragraph(headed,
                                  "Found " \o ToString(missing)
                                    \o " columns with missing values"),
                    None, missing, Some(30), TRUE)

\* add_statistics_summary, lines 283-307, for `columns` described columns;
\* numeric holds when one of them is of a number type (describe() then
\* keeps the number columns and gives number statistics; of text columns
\* alone it gives count, unique, top and freq as objects).  describe() of
\* no column raises ValueError before the table is reached.
add_statistics_summary(r, columns, numeric, title) ==
  LET headed == add_heading(Invoked(r, "add_statistics_summary"), title)
  IN IF columns = 0
     THEN [ headed EXCEPT !.raised = Some("ValueError") ]
     ELSE add_table(headed, None, columns, None, numeric)

\* add_correlation_summary, lines 309-329, with `above` pairs of columns
\* correlated at or above the threshold
add_correlation_summary(r, above) ==
  LET headed == add_heading(Invoked(r, "add_correlation_summary"),
                            "Top Correlations")
  IN IF above = 0
     THEN add_paragraph(headed, "No correlations above threshold.")
     ELSE add_table(headed, None, above, None, TRUE)

\* add_value_counts, lines 333-348, for a column col: values is None when
\* the frame has no such column (df[col] raises KeyError), otherwise the
\* number of values counted, which the table lists with their integer
\* Count
add_value_counts(r, col, values, title) ==
  LET entered == Invoked(r, "add_value_counts")
      headed == add_heading(entered,
                            IF Truthy(title) THEN title[1]
                            ELSE "Value Counts: " \o col)
  IN IF values = None
     THEN [ headed EXCEPT !.raised = Some("KeyError") ]
     ELSE add_table(headed, None, values[1], None, TRUE)

\* add_info_box, add_warning_box, add_success_box, add_error_box, lines
\* 355-373: a quote that begins with the label of the box (the pictograph
\* in front of the label is left out)
add_box(r, method, label, text) ==
  add_quote(Invoked(r, method), "**" \o label \o ":** " \o text)

add_info_box(r, text) == add_box(r, "add_info_box", "Info", text)

add_warning_box(r, text) == add_box(r, "add_warning_box", "Warning", text)

add_success_box(r, text) == add_box(r, "add_success_box", "Success", text)

add_error_box(r, text) == add_box(r, "add_error_box", "Error", text)

\* add_collapsible, lines 379-391
add_collapsible(r, title, content, open_by_default) ==
  AppendEntry(Invoked(r, "add_collapsible"),
              Entry("details", None,
                    "<details" \o (IF open_by_default THEN " open" ELSE "")
                      \o "><summary>" \o title \o "</summary>" \o content
                      \o "</details>"))

\* ReportBuilder(title)
NewReport(title) ==
  LET empty == [ contents |-> << >>, _figure_count |-> 0, _table_count |-> 0,
                 calls |-> << >>, before |-> << >>, ops |-> 0, raised |-> None ]
  IN IF Truthy(title)
     THEN add_separator(add_paragraph(add_heading(empty, title[1]), "Generated"))
     ELSE empty

(***************************************************************************)
(* run_step_08: selection of countries, years and variables.  A row is     *)
(* [country, year, co2, co2_per_capita, gdp, population]; a key cell is    *)
(* None when missing.                                                      *)
(***************************************************************************)
max_missing_pct == 30

min_year == 2000

max_year == 2020

key_cols == << "co2", "co2_per_capita", "gdp", "population" >>

FinalRow(c, y, cells) ==
  [ country |-> c, year |-> y, co2 |-> cells[1], co2_per_capita |-> cells[2],
    gdp |-> cells[3], population |-> cells[4] ]

\* df[mask]: the rows at the given positions, in order
RowsAt(df, kept) == [ r \in 1..Cardinality(kept) |-> df[Nth(kept, r)] ]

\* df["country"].nunique() as a set
CountriesOf(df) == { df[i].country : i \in 1..Len(df) }

\* x.isna().sum().sum() for the rows of one country
missing_cells(df, c) ==
  Cardinality({ << i, k >> \in (1..Len(df)) \X (1..Len(key_cols)) :
                  df[i].country = c /\ df[i][key_cols[k]] = None })

\* x.size for the rows of one country
group_size(df, c) ==
  Cardinality({ i \in 1..Len(df) : df[i].country = c }) * Len(key_cols)

\* missing / size * 100 <= limit.  The float64 quotient and product compare
\* with the limit as the exact ratio does for every size a frame can have
\* (3 / 10 * 100 is 30.0 exactly).
within_limit(missing, size, limit) == missing * 100 <= limit * size

select_countries(df, limit) ==
  LET before == CountriesOf(df)
      valid_countries ==
        { c \in before :
            within_limit(missing_cells(df, c), group_size(df, c), limit) }
      excluded_countries ==
        { c \in before :
            ~within_limit(missing_cells(df, c), group_size(df, c), limit) }
      df_filtered ==
        RowsAt(df, { i \in 1..Len(df) : df[i].country \in valid_countries })
      excluded_list == Sorted(excluded_countries)
  IN [ df |-> df_filtered,
       stats |-> [ countries_before |-> Cardinality(before),
                   countries_after |-> Cardinality(CountriesOf(df_filtered)),
                   countries_excluded |-> Cardinality(excluded_countries),
                   excluded_list |->
                     SubSeq(excluded_list, 1,
                            IF Len(excluded_list) < 20
                            THEN Len(excluded_list) ELSE 20) ] ]

select_years(df, lo, hi) ==
  RowsAt(df, { i \in 1..Len(df) : df[i].year >= lo /\ df[i].year <= hi })

\* every column of the modelled frame is in vars_to_keep: rows are untouched
select_variables(df) == df

\* var_stats["vars_by_group"] for the columns of the modelled frame
\* (country, year, co2, co2_per_capita, gdp, population), in the order of
\* variable_groups
vars_by_group ==
  << << "identifiers", 2 >>, << "dependent", 2 >>, << "main_predictors", 2 >>,
     << "energy", 0 >>, << "renewable", 0 >>, << "dynamics", 0 >>,
     << "categorical", 0 >>, << "lagged", 0 >>, << "country_metadata", 0 >> >>

\* `for x in items: report.add_bullet(x)`
RECURSIVE add_bullets(_, _)
add_bullets(r, items) ==
  IF items = << >> THEN r
  ELSE add_bullets(add_bullet(r, Head(items), 0), Tail(items))

\* generate_selection_report, lines 214-247: the introduction with its
\* key-value table of two strings and two integers, then the section on
\* the countries with its key-value table of three integers
selection_report_countries(country_stats) ==
  LET report0 == NewReport(Some("Wybor zmiennych i rekordow"))
      intro == add_key_value_table(
                 add_paragraph(add_heading(report0, "Wprowadzenie"),
                               "Niniejszy raport dokumentuje proces selekcji"),
                 4, None, FALSE)
      section == add_paragraph(
                   add_heading(add_separator(intro), "Selekcja krajow"),
                   "**Kryterium:** Wykluczenie krajow")
  IN add_key_value_table(section, 3, None, TRUE)

\* lines 249-269: the excluded countries, at most ten, and the section on
\* the years with its key-value table of two strings and an integer
selection_report_years(r, country_stats) ==
  LET listed == SubSeq(country_stats.excluded_list, 1,
                       IF Len(country_stats.excluded_list) < 10
                       THEN Len(country_stats.excluded_list) ELSE 10)
      excluded ==
        IF country_stats.excluded_list # << >>
        THEN add_bullets(add_paragraph(r, "**Przykladowe wykluczone kraje:**"),
                         listed)
        ELSE r
      section == add_paragraph(
                   add_heading(add_separator(excluded), "Selekcja lat"),
                   "**Kryterium:** Zakres czasowy 2000-2020")
  IN add_key_value_table(section, 3, None, FALSE)

\* lines 274-286: the section on the variables with its key-value table
\* of two integers
selection_report_variables(r) ==
  LET section == add_paragraph(
                   add_heading(add_separator(r), "Selekcja zmiennych"),
                   "**Kryteria:** Wybrano zmienne istotne")
  IN add_key_value_table(section, 2, None, TRUE)

\* lines 288-340: the variables by group, the validation with its
\* key-value tables (two strings and three integers; the coverage of the
\* four key columns as strings), the list of columns and the summary
selection_report_rest(r) ==
  LET groups == add_bullets(
                  add_heading(r, "Zmienne wedlug kategorii"),
                  [ k \in 1..Len(vars_by_group) |->
                      vars_by_group[k][1] \o ": "
                        \o ToString(vars_by_group[k][2]) \o " zmiennych" ])
      general == add_key_value_table(
                   add_heading(
                     add_heading(add_separator(groups),
                                 "Walidacja finalnego zbioru"),
                     "Ogolne statystyki"),
                   5, None, FALSE)
      coverage == add_key_value_table(
                    add_heading(general, "Pokrycie kluczowych zmiennych"),
                    Len(key_cols), None, FALSE)
      columns == add_code(
                   add_heading(add_separator(coverage),
                               "Lista zmiennych w finalnym zbiorze"),
                   "country, year, co2, co2_per_capita, gdp, population", "")
      summary == add_paragraph(
                   add_paragraph(
                     add_heading(add_separator(columns), "Podsumowanie"),
                     "Finalny zbior danych zawiera"),
                   "**Zapisany plik:**")
  IN add_bullets(
       add_paragraph(add_bullet(summary, "out/final/final_panel.parquet", 0),
                     "**Zbior jest gotowy do:**"),
       << "Modelowania regresyjnego (krzywa Kuznetsa)", "Analizy panelowej",
          "Analizy skupien (clustering)", "Wizualizacji i raportowania" >>)

\* generate_selection_report, lines 200-342: the builder as the call leaves
\* it; an exception raised by a table ends the call where it is raised
generate_selection_report(country_stats) ==
  LET countries == selection_report_countries(country_stats)
      years == selection_report_years(countries, country_stats)
      variables == selection_report_variables(years)
  IN IF countries.raised # None THEN countries
     ELSE IF years.raised # None THEN years
     ELSE IF variables.raised # None THEN variables
     ELSE selection_report_rest(variables)

MaxInner == 1

\* the years on both sides of each end of the range, and some inside it
CandidateYears ==
  << min_year - 1 >>
    \o [ k \in 1..(MaxInner + 1) |-> min_year + k - 1 ]
    \o << max_year, max_year + 1 >>

\* a row of a country: complete, co2 missing, or every key cell missing
CellPatterns ==
  { << Some(1), Some(1), Some(1), Some(1) >>,
    << None, Some(1), Some(1), Some(1) >>,
    << None, None, None, None >> }

\* the rows of country c: for every candidate year no row, or one pattern
RECURSIVE CountryRows(_, _, _)
CountryRows(c, choice, k) ==
  IF k > Len(CandidateYears) THEN << >>
  ELSE (IF choice[k] = None THEN << >>
        ELSE << FinalRow(c, CandidateYears[k], choice[k][1]) >>)
         \o CountryRows(c, choice, k + 1)

\* the second country: absent, complete or entirely missing in one year
SecondCountry ==
  { << >>,
    << FinalRow("B", min_year, << Some(1), Some(1), Some(1), Some(1) >>) >>,
    << FinalRow("B", min_year, << None, None, None, None >>) >> }

InitSelect ==
  /\ BaseIdle
  /\ \E choice \in [ 1..Len(CandidateYears) ->
                       { None } \cup { Some(p) : p \in CellPatterns } ],
        second \in SecondCountry :
       LET df == CountryRows("A", choice, 1) \o second
       IN Only_selection(
            Some([ input |-> df, df |-> df, pc |-> "countries",
                   valid |-> { }, country_stats |-> None, saved |-> None,
                   report |-> None, raised |-> None, result |-> None ]))

\* 1. select_countries(df, max_missing_pct=30.0)
SelectCountries ==
  /\ selection # None
  /\ selection[1].pc = "countries"
  /\ LET r == select_countries(selection[1].df, max_missing_pct)
     IN selection' = Some([ selection[1] EXCEPT
                              !.df = r.df,
                              !.valid = CountriesOf(r.df),
                              !.country_stats = Some(r.stats),
                              !.pc = "years" ])
  /\ UNCHANGED but_selection

\* 2. select_years(df, 2000, 2020)
SelectYears ==
  /\ selection # None
  /\ selection[1].pc = "years"
  /\ selection' = Some([ selection[1] EXCEPT
                           !.df = select_years(selection[1].df,
                                               min_year, max_year),
                           !.pc = "variables" ])
  /\ UNCHANGED but_selection

\* 3. select_variables(df)
SelectVariables ==
  /\ selection # None
  /\ selection[1].pc = "variables"
  /\ selection' = Some([ selection[1] EXCEPT
                           !.df = select_variables(selection[1].df),
                           !.pc = "save" ])
  /\ UNCHANGED but_selection

\* 4. validate_final_dataset(df), which reads the frame, and
\* 5. save_final_data(df): the frame is written to final_panel.parquet
SaveFinalData ==
  /\ selection # None
  /\ selection[1].pc = "save"
  /\ selection' = Some([ selection[1] EXCEPT
                           !.saved = Some(selection[1].df),
                           !.pc = "report" ])
  /\ UNCHANGED but_selection

\* 6. generate_selection_report(...), lines 390-392, outside any try: an
\* exception of the report ends run_step_08; otherwise `return df,
\* report_path`
ReturnStep08 ==
  /\ selection # None
  /\ selection[1].pc = "report"
  /\ LET r == generate_selection_report(selection[1].country_stats[1])
     IN selection' =
          Some(IF r.raised # None
               THEN [ selection[1] EXCEPT !.report = Some(r),
                                          !.raised = r.raised,
                                          !.pc = "raised" ]
               ELSE [ selection[1] EXCEPT !.report = Some(r),
                                          !.result = Some(selection[1].df),
                                          !.pc = "returned" ])
  /\ UNCHANGED but_selection

NextSelect ==
  \/ SelectCountries
  \/ SelectYears
  \/ SelectVariables
  \/ SaveFinalData
  \/ ReturnStep08

SpecSelect == InitSelect /\ [][NextSelect]_vars

(***************************************************************************)
(* merge_owid_sustainable.  An OWID row is [country, year, co2], an energy *)
(* row is [country, year, access]; a year is held as an integer or as a    *)
(* float with an integral value, a missing country is None.                *)
(***************************************************************************)
IntYear(y) == [ dtype |-> "int", v |-> y ]

FloatYear(y) == [ dtype |-> "float", v |-> y ]

\* df["year"].astype(int)
astype_int(year) == [ dtype |-> "int", v |-> year.v ]

WithIntYears(df) ==
  [ i \in 1..Len(df) |-> [ df[i] EXCEPT !.year = astype_int(df[i].year) ] ]

\* pd.merge compares key tuples; a missing key matches a missing key
SameKey(a, b) == a.country = b.country /\ a.year = b.year

\* the merged rows that left row a contributes under how="left"
RECURSIVE MatchesOf(_, _)
MatchesOf(a, right) ==
  IF right = << >> THEN << >>
  ELSE (IF SameKey(a, Head(right))
        THEN << [ country |-> a.country, year |-> a.year, co2 |-> a.co2,
                  access |-> Some(Head(right).access) ] >>
        ELSE << >>)
         \o MatchesOf(a, Tail(right))

\* variant: how="inner", a left row without a match contributes nothing
RECURSIVE merge_inner(_, _)
merge_inner(left, right) ==
  IF left = << >> THEN << >>
  ELSE MatchesOf(Head(left), right) \o merge_inner(Tail(left), right)

\* pd.merge(left, right, on=["country", "year"], how="left")
RECURSIVE merge_left(_, _)
merge_left(left, right) ==
  IF left = << >> THEN << >>
  ELSE LET a == Head(left)
           m == MatchesOf(a, right)
       IN (IF m = << >>
           THEN << [ country |-> a.country, year |-> a.year, co2 |-> a.co2,
                     access |-> None ] >>
           ELSE m)
            \o merge_left(Tail(left), right)

merge_owid_sustainable(df_owid, df_energy) ==
  LET df_merged == merge_left(WithIntYears(df_owid), WithIntYears(df_energy))
  IN [ df |-> df_merged,
       stats |-> [ owid_rows |-> Len(df_owid),
                   energy_rows |-> Len(df_energy),
                   merged_rows |-> Len(df_merged) ] ]

MaxMergeRows == 2

MergeKeys ==
  { << c, y >> : c \in { Some("A"), None },
                 y \in { IntYear(2000), FloatYear(2000), IntYear(2001) } }

\* the frames of up to MaxMergeRows rows; each row carries its position
OwidFrames ==
  UNION { { [ i \in 1..n |-> [ country |-> k[i][1], year |-> k[i][2],
                               co2 |-> i ] ] :
              k \in [ 1..n -> MergeKeys ] } : n \in 0..MaxMergeRows }

EnergyFrames ==
  UNION { { [ i \in 1..n |-> [ country |-> k[i][1], year |-> k[i][2],
                               access |-> i ] ] :
              k \in [ 1..n -> MergeKeys ] } : n \in 0..MaxMergeRows }

InitMerge ==
  /\ BaseIdle
  /\ \E o \in OwidFrames, e \in EnergyFrames :
       Only_merging(Some([ df_owid |-> o, df_energy |-> e, result |-> None ]))

MergeOwidSustainable ==
  /\ merging # None
  /\ merging[1].result = None
  /\ merging' =
       Some([ merging[1] EXCEPT
                !.result = Some(merge_owid_sustainable(merging[1].df_owid,
                                                       merging[1].df_energy)) ])
  /\ UNCHANGED but_merging

NextMerge == MergeOwidSustainable

SpecMerge == InitMerge /\ [][NextMerge]_vars

(***************************************************************************)
(* run_step_06: outlier analysis.  A row is [country, year,                *)
(* co2_per_capita]; every value is present.  gdp and population are        *)
(* columns of the frame that hold no value in any row; co2 is no column.   *)
(***************************************************************************)
\* the positions of a frame ordered by value, ties by position
RankedBy(df, descending) ==
  LET Less(a, b) == IF descending THEN a > b ELSE a < b
  IN [ r \in 1..Len(df) |->
         CHOOSE i \in 1..Len(df) :
           Cardinality({ j \in 1..Len(df) :
                           \/ Less(df[j].co2_per_capita, df[i].co2_per_capita)
                           \/ /\ df[j].co2_per_capita = df[i].co2_per_capita
                              /\ j < i }) = r - 1 ]

\* four times df[col].quantile(q4 / 4), linear interpolation between the
\* two nearest order statistics
quantile4(df, q4) ==
  LET n == Len(df)
      order == RankedBy(df, FALSE)
      at(k) == df[order[k + 1]].co2_per_capita
      lo == ((n - 1) * q4) \div 4
      part == ((n - 1) * q4) % 4
  IN IF part = 0 THEN 4 * at(lo)
     ELSE 4 * at(lo) + part * (at(lo + 1) - at(lo))

\* detect_outliers_iqr(df, col, k=1.5): the mask of the rows outside
\* [q1 - 1.5 iqr, q3 + 1.5 iqr], compared at eight times the scale
detect_outliers_iqr(df) ==
  LET q1 == quantile4(df, 1)
      q3 == quantile4(df, 3)
      iqr == q3 - q1
      lower8 == 2 * q1 - 3 * iqr
      upper8 == 2 * q3 + 3 * iqr
  IN [ i \in 1..Len(df) |->
         \/ 8 * df[i].co2_per_capita < lower8
         \/ 8 * df[i].co2_per_capita > upper8 ]

n_top == 10

\* df.nlargest(n, var) / df.nsmallest(n, var) with the type column added
\* to the copy
TopRows(df, descending, n, type) ==
  LET order == RankedBy(df, descending)
      m == IF Len(df) < n THEN Len(df) ELSE n
  IN [ r \in 1..m |-> [ country |-> df[order[r]].country,
                        year |-> df[order[r]].year,
                        co2_per_capita |-> df[order[r]].co2_per_capita,
                        type |-> type ] ]

\* df.nlargest(n, "gdp")[["country", "year", "gdp"]] with the type column:
\* no row holds a value of gdp, and nlargest puts the rows without a value
\* after those with one, in the order of the frame
TopRowsWithoutValue(df, n, type) ==
  LET m == IF Len(df) < n THEN Len(df) ELSE n
  IN [ r \in 1..m |-> [ country |-> df[r].country, year |-> df[r].year,
                        gdp |-> None, type |-> type ] ]

\* top_high, then top_low among the rows with df[var] > 0; no row has
\* gdp > 0, so the low cases of gdp are none
identify_extreme_cases(df, var) ==
  IF var = "gdp" THEN TopRowsWithoutValue(df, n_top, "high")
  ELSE LET df_positive ==
             RowsAt(df, { i \in 1..Len(df) : df[i].co2_per_capita > 0 })
       IN TopRows(df, TRUE, n_top, "high")
            \o TopRows(df_positive, FALSE, n_top, "low")

\* `for var in ["co2_per_capita", "co2", "gdp"]: if var in df.columns`: the
\* variables of the loop that are columns of the frame, in its order
extreme_vars == << "co2_per_capita", "gdp" >>

\* extreme_cases after the loop of lines 327-330: the cases of every
\* variable, in the order the dict received them
extreme_cases_of(df) ==
  [ k \in 1..Len(extreme_vars) |->
      [ var |-> extreme_vars[k],
        cases |-> identify_extreme_cases(df, extreme_vars[k]) ] ]

oil_countries ==
  { "Qatar", "Kuwait", "United Arab Emirates", "Bahrain", "Saudi Arabia" }

\* analyze_known_outliers(df)["oil_countries"]
analyze_known_outliers(df) ==
  RowsAt(df, { i \in 1..Len(df) : df[i].country \in oil_countries })

\* len(detect_outliers_multiple_methods(df, key_vars)): one row for every
\* key variable that is a column of the frame and has a value; of the key
\* variables the modelled frame holds values in co2_per_capita alone, one
\* in every row (gdp and population are columns without a value)
outliers_summary_rows(df) == IF Len(df) = 0 THEN 0 ELSE 1

\* cases_df[cases_df["type"] == type].head(5), as a number of rows
head5(cases, type) ==
  LET n == Cardinality({ i \in 1..Len(cases) : cases[i].type = type })
  IN IF n < 5 THEN n ELSE 5

\* `for path in plot_paths[:4]: report.add_figure(rel_path)`
RECURSIVE add_figures(_, _)
add_figures(r, n) ==
  IF n = 0 THEN r ELSE add_figures(add_figure(r, None, None, None), n - 1)

\* generate_outliers_report, lines 179-203: the introduction and the
\* summary table, whose columns n_total and the counts are numbers
outliers_report_summary(summary_rows) ==
  LET report0 == NewReport(Some("Analiza danych nietypowych (outliers)"))
      intro ==
        add_bullet(
          add_bullet(
            add_paragraph(
              add_paragraph(add_heading(report0, "Wprowadzenie"),
                            "Niniejszy raport przedstawia analize"),
              "**Metody wykrywania outlierow:**"),
            "IQR (Interquartile Range)", 0),
          "Z-score", 0)
      section == add_heading(add_separator(intro),
                             "Podsumowanie outlierow wedlug zmiennych")
  IN IF summary_rows > 0
     THEN add_table(section, None, summary_rows, None, TRUE)
     ELSE section

\* lines 213-220: the heading of a variable and the table of its highest
\* values (country, year and the variable; year is a number, the variable
\* a number or NaN)
outliers_report_high(r, var, cases) ==
  LET headed == add_heading(r, "Ekstrema dla: " \o var)
  IN IF head5(cases, "high") > 0
     THEN add_table(add_paragraph(headed, "**Najwyzsze wartosci:**"),
                    None, head5(cases, "high"), None, TRUE)
     ELSE headed

\* lines 222-224: the table of the lowest values
outliers_report_low(r, cases) ==
  IF head5(cases, "low") > 0
  THEN add_table(add_paragraph(r, "**Najnizsze wartosci:**"),
                 None, head5(cases, "low"), None, TRUE)
  ELSE r

\* lines 211-224: the loop over extreme_cases.items(), one variable after
\* the other; a variable without cases adds nothing, and an exception
\* raised by a table ends the loop
RECURSIVE outliers_report_extremes(_, _)
outliers_report_extremes(r, extreme_cases) ==
  IF extreme_cases = << >> \/ r.raised # None THEN r
  ELSE LET var == Head(extreme_cases).var
           cases == Head(extreme_cases).cases
           high == outliers_report_high(r, var, cases)
           after == IF Len(cases) = 0 THEN r
                    ELSE IF high.raised # None THEN high
                    ELSE outliers_report_low(high, cases)
       IN outliers_report_extremes(after, Tail(extreme_cases))

\* lines 229-243: the known categories; the table of the oil countries
\* has one row for each of them with the means of its values (the frames
\* hold no Nordic country)
outliers_report_known(r, known) ==
  LET section == add_heading(add_separator(r),
                             "Analiza znanych kategorii outlierow")
      countries == Cardinality({ known[i].country : i \in 1..Len(known) })
  IN IF Len(known) > 0
     THEN add_table(
            add_paragraph(
              add_heading(section, "Kraje naftowe (wysokie emisje per capita)"),
              "Kraje takie jak Katar, Kuwejt czy ZEA"),
            None, countries, None, TRUE)
     ELSE section

\* lines 260-285: the figures and the recommendations
outliers_report_rest(r, plot_paths) ==
  LET figures == add_figures(add_heading(add_separator(r), "Wizualizacje"),
                             IF plot_paths < 4 THEN plot_paths ELSE 4)
      advice == add_paragraph(
                  add_heading(add_separator(figures),
                              "Rekomendacje dotyczace obslugi outlierow"),
                  "**Strategia:**")
      numbered ==
        add_numbered(
          add_numbered(
            add_numbered(add_numbered(advice, "**Zachowaj** outliery", 1),
                         "**Rozwaz winsoryzacje**", 2),
            "**Dodaj zmienne kontrolne**", 3),
          "**Przeprowadz analize wrazliwosci**", 4)
  IN add_paragraph(numbered, "**Wniosek:** Wiekszosc outlierow")

\* generate_outliers_report, lines 168-289: the builder as the call leaves
\* it; an exception raised by a table ends the call where it is raised
generate_outliers_report(summary, extreme_cases, known_outliers, plots) ==
  LET summarised == outliers_report_summary(summary)
      section == add_heading(add_separator(summarised),
                             "Ekstremalne przypadki")
      extremes == outliers_report_extremes(section, extreme_cases)
      known == outliers_report_known(extremes, known_outliers)
  IN IF summarised.raised # None THEN summarised
     ELSE IF extremes.raised # None THEN extremes
     ELSE IF known.raised # None THEN known
     ELSE outliers_report_rest(known, plots)

\* return df, report_path
returned_frame(df) == df

MaxOutlierRows == 4

OutlierCountries == << "Qatar", "Poland" >>

OutlierValues == { -1, 0, 1, 100 }

OutlierFrames ==
  UNION { { [ i \in 1..n |->
                [ country |-> OutlierCountries[((i - 1) % 2) + 1],
                  year |-> min_year + (i - 1) \div 2,
                  co2_per_capita |-> v[i] ] ] :
              v \in [ 1..n -> OutlierValues ] } : n \in 0..MaxOutlierRows }

InitOutliers ==
  /\ BaseIdle
  /\ \E f \in OutlierFrames :
       Only_outliers(Some([ input |-> f, df |-> f, pc |-> "detect",
                            flagged |-> None, extreme |-> None,
                            known |-> None, plot_paths |-> 0,
                            saved |-> FALSE, extreme_csv |-> None,
                            report |-> None,
                            raised |-> None, result |-> None ]))

\* 1. detect_outliers_multiple_methods(df, key_vars)
DetectOutliers ==
  /\ outliers # None
  /\ outliers[1].pc = "detect"
  /\ outliers' =
       Some([ outliers[1] EXCEPT
                !.flagged = Some(detect_outliers_iqr(outliers[1].df)),
                !.pc = "extreme" ])
  /\ UNCHANGED but_outliers

\* 2. lines 327-330: identify_extreme_cases(df, var) for every variable of
\* the loop that is a column
IdentifyExtremeCases ==
  /\ outliers # None
  /\ outliers[1].pc = "extreme"
  /\ outliers' =
       Some([ outliers[1] EXCEPT
                !.extreme = Some(extreme_cases_of(outliers[1].df)),
                !.pc = "known" ])
  /\ UNCHANGED but_outliers

\* 3. analyze_known_outliers(df)
AnalyzeKnownOutliers ==
  /\ outliers # None
  /\ outliers[1].pc = "known"
  /\ outliers' =
       Some([ outliers[1] EXCEPT
                !.known = Some(analyze_known_outliers(outliers[1].df)),
                !.pc = "plots" ])
  /\ UNCHANGED but_outliers

\* the variables of create_outlier_plots' key_vars (line 137) that are
\* columns of the modelled frame; co2 is none, so the scatter plot of gdp
\* against co2 (line 151) is not drawn
plotted_vars == { "co2_per_capita", "gdp" }

\* 4. create_outlier_plots(df, ...): one box plot for each plotted
\* variable; an exception of the plotting is caught (lines 141-149) and
\* leaves no path for that variable
CreateOutlierPlots ==
  /\ outliers # None
  /\ outliers[1].pc = "plots"
  /\ \E made \in 0..Cardinality(plotted_vars) :
       outliers' = Some([ outliers[1] EXCEPT !.plot_paths = made,
                                             !.pc = "save" ])
  /\ UNCHANGED but_outliers

\* save_outliers_outputs, lines 298-304: the rows of extreme_cases.csv, the
\* cases of every variable one after the other, each with the variable
\* it belongs to
RECURSIVE all_extreme(_)
all_extreme(extreme_cases) ==
  IF extreme_cases = << >> THEN << >>
  ELSE LET var == Head(extreme_cases).var
           cases == Head(extreme_cases).cases
       IN [ i \in 1..Len(cases) |->
              [ country |-> cases[i].country, year |-> cases[i].year,
                type |-> cases[i].type, source_variable |-> var ] ]
            \o all_extreme(Tail(extreme_cases))

\* 5. save_outliers_outputs(outliers_summary, extreme_cases)
SaveOutliersOutputs ==
  /\ outliers # None
  /\ outliers[1].pc = "save"
  /\ outliers' =
       Some([ outliers[1] EXCEPT
                !.saved = TRUE,
                !.extreme_csv = Some(all_extreme(outliers[1].extreme[1])),
                !.pc = "report" ])
  /\ UNCHANGED but_outliers

\* 6. generate_outliers_report(...), lines 345-347, outside any try: an
\* exception of the report ends run_step_06; otherwise `return df,
\* report_path`
ReturnStep06 ==
  /\ outliers # None
  /\ outliers[1].pc = "report"
  /\ LET r == generate_outliers_report(
                outliers_summary_rows(outliers[1].df), outliers[1].extreme[1],
                outliers[1].known[1], outliers[1].plot_paths)
     IN outliers' =
          Some(IF r.raised # None
               THEN [ outliers[1] EXCEPT !.report = Some(r),
                                         !.raised = r.raised,
                                         !.pc = "raised" ]
               ELSE [ outliers[1] EXCEPT
                        !.report = Some(r),
                        !.result = Some(returned_frame(outliers[1].df)),
                        !.pc = "returned" ])
  /\ UNCHANGED but_outliers

NextOutliers ==
  \/ DetectOutliers
  \/ IdentifyExtremeCases
  \/ AnalyzeKnownOutliers
  \/ CreateOutlierPlots
  \/ SaveOutliersOutputs
  \/ ReturnStep06

SpecOutliers == InitOutliers /\ [][NextOutliers]_vars

(***************************************************************************)
(* huggingface_from_sqlite, statement by statement, beside another process *)
(* that may create out_dir at any moment.  out_dir on disk is None when    *)
(* absent, otherwise the name of who wrote it.                             *)
(***************************************************************************)
\* what the database and the arguments make of the inspection (lines 64-98)
Databases ==
  { "one_table", "no_tables", "many_tables_none_named", "table_not_found",
    "columns_not_found", "no_rows" }

\* the exception the inspection raises, None when it passes
inspect(db) ==
  CASE db = "no_tables" -> Some("RuntimeError")
    [] db = "many_tables_none_named" -> Some("ValueError")
    [] db = "table_not_found" -> Some("ValueError")
    [] db = "columns_not_found" -> Some("ValueError")
    [] OTHER -> None

\* lines 118-124 and 172-178: what follows the second look at out_dir
recheck(exists, overwrite) ==
  IF exists
  THEN IF overwrite THEN "rmtree" ELSE "FileExistsError"
  ELSE "save"

MaxQueryRows == 5

\* the chunk_size arguments tried
ChunkSizes == { 2, 3 }

\* the number of rows the query returns: none for a table without rows and
\* for a database whose inspection raises before the query is made
QueryRows(db) == IF db = "one_table" THEN 1..MaxQueryRows ELSE { 0 }

HfStart(overwrite, small, db, rows, chunk_size, disk) ==
  [ overwrite |-> overwrite, small |-> small, db |-> db,
    pc |-> "entry", conn |-> "none", opened |-> FALSE,
    rows |-> rows, chunk_size |-> chunk_size,
    out_dir |-> disk, at_entry |-> disk, pending |-> None,
    outcome |-> None, overwritten |-> FALSE, wrote |-> FALSE,
    shards |-> None ]

InitHf ==
  /\ BaseIdle
  /\ \E overwrite \in BOOLEAN, small \in BOOLEAN, db \in Databases,
        chunk_size \in ChunkSizes, disk \in { None, Some("earlier call") } :
       \E rows \in QueryRows(db) :
         \* small: limit is given and limit <= chunk_size (line 114), and
         \* the query returns at most limit rows
         /\ small => rows <= chunk_size
         /\ Only_hf(Some(HfStart(overwrite, small, db, rows, chunk_size, disk)))

HfAt(pc) == hf # None /\ hf[1].pc = pc

HfTo(h) == hf' = Some(h) /\ UNCHANGED but_hf

\* another process creates out_dir after the look at it on entry
OtherProcessCreates ==
  /\ hf # None
  /\ hf[1].pc \notin { "entry", "done" }
  /\ hf[1].out_dir = None
  /\ HfTo([ hf[1] EXCEPT !.out_dir = Some("other process") ])

\* lines 52-60
HfEntry ==
  /\ HfAt("entry")
  /\ IF hf[1].out_dir # None /\ ~hf[1].overwrite
     THEN HfTo([ hf[1] EXCEPT !.pc = "done", !.outcome = Some("load_from_disk") ])
     ELSE HfTo([ hf[1] EXCEPT !.pc = "connect" ])

\* line 62
HfConnect ==
  /\ HfAt("connect")
  /\ HfTo([ hf[1] EXCEPT !.pc = "inspect", !.conn = "open", !.opened = TRUE ])

\* lines 63-111
HfInspect ==
  /\ HfAt("inspect")
  /\ IF inspect(hf[1].db) # None
     THEN HfTo([ hf[1] EXCEPT !.pc = "finally", !.pending = inspect(hf[1].db) ])
     ELSE HfTo([ hf[1] EXCEPT
                   !.pc = IF hf[1].small THEN "small_check" ELSE "export" ])

\* the second look at out_dir, lines 118-124 (small) and 172-178
HfRecheck(at, save, raised) ==
  /\ HfAt(at)
  /\ LET next == recheck(hf[1].out_dir # None, hf[1].overwrite)
     IN IF next = "FileExistsError"
        THEN HfTo(raised)
        ELSE IF next = "rmtree"
        THEN HfTo([ hf[1] EXCEPT !.pc = save, !.out_dir = None,
                                 !.overwritten = TRUE ])
        ELSE HfTo([ hf[1] EXCEPT !.pc = save ])

\* lines 115-124
HfSmallCheck ==
  HfRecheck("small_check", "small_save",
            [ hf[1] EXCEPT !.pc = "finally",
                           !.pending = Some("FileExistsError") ])

\* ds.save_to_disk(str(out_path)) writes into out_dir, present or not
HfSave(at, after, pending) ==
  /\ HfAt(at)
  /\ HfTo([ hf[1] EXCEPT
              !.pc = after,
              !.pending = pending,
              !.outcome = IF after = "done" THEN Some("returned") ELSE @,
              !.overwritten = @ \/ hf[1].out_dir # None,
              !.wrote = TRUE,
              !.out_dir = Some("this call") ])

\* lines 126-127
HfSmallSave == HfSave("small_save", "finally", Some("return"))

\* lines 150-154: how many chunks pd.read_sql_query(query, conn,
\* chunksize=chunk_size) yields, one shard file being written for each: a
\* chunk for every chunk_size rows and one for the rows left over.  For a
\* query without rows pandas before 1.3.0 yields no chunk and pandas since
\* 1.3.0 yields one empty frame; the program pins no version of pandas.
shard_counts(rows, chunk_size) ==
  IF rows = 0 THEN { 0, 1 }
  ELSE { (rows + chunk_size - 1) \div chunk_size }

\* lines 129-163
HfExport ==
  /\ HfAt("export")
  /\ \E n \in shard_counts(hf[1].rows, hf[1].chunk_size) :
       HfTo([ hf[1] EXCEPT
                !.pc = "finally",
                !.shards = Some(n),
                !.pending = IF n = 0 THEN Some("RuntimeError") ELSE None ])

\* lines 165-170: conn.close(), then the pending raise or return goes on
HfFinally ==
  /\ HfAt("finally")
  /\ IF hf[1].pending = None
     THEN HfTo([ hf[1] EXCEPT !.pc = "check", !.conn = "closed" ])
     ELSE HfTo([ hf[1] EXCEPT
                   !.pc = "done", !.conn = "closed",
                   !.outcome = IF hf[1].pending = Some("return")
                               THEN Some("returned") ELSE hf[1].pending ])

\* lines 172-178
HfCheck ==
  HfRecheck("check", "save",
            [ hf[1] EXCEPT !.pc = "done",
                           !.outcome = Some("FileExistsError") ])

\* lines 180-181
HfFinalSave == HfSave("save", "done", None)

NextHf ==
  \/ OtherProcessCreates
  \/ HfEntry
  \/ HfConnect
  \/ HfInspect
  \/ HfSmallCheck
  \/ HfSmallSave
  \/ HfExport
  \/ HfFinally
  \/ HfCheck
  \/ HfFinalSave

SpecHf == InitHf /\ [][NextHf]_vars

(***************************************************************************)
(* The dataset loaders of step 0, statement by statement, called by runs   *)
(* of the program that may overlap.  A dataset is [version, rows]: which   *)
(* upstream release it was read from and how many rows it holds.  The      *)
(* cache directory of a loader is None when absent, otherwise Some of what *)
(* it holds.                                                               *)
(***************************************************************************)
Loaders == { "owid_co2", "sustainable_energy", "countries_of_world_2023" }

\* the runs of the program that call the loaders
Processes == { "this run", "another run" }

UpstreamRows == 3

\* a cache directory that exists and holds no dataset
EmptyDir == [ version |-> 0, rows |-> 0 ]

\* df.head(samples) when samples is given
head(ds, samples) ==
  IF samples = None THEN ds
  ELSE [ ds EXCEPT !.rows = IF samples[1] < ds.rows THEN samples[1] ELSE ds.rows ]

\* os.path.exists(cache_path), lines 50, 90 and 143
cache_exists(dir) == dir # None

\* hf_datasets.load_from_disk(cache_path), lines 51, 91 and 144: the dataset in
\* the directory, or the exception raised on a directory without one
load_from_disk(dir) ==
  IF dir[1] = EmptyDir
  THEN [ result |-> None, raised |-> Some("FileNotFoundError") ]
  ELSE [ result |-> dir, raised |-> None ]

\* create_dir(cache_path), lines 65 and 168, utils/fs.py line 216: mkdir with
\* exist_ok, an existing directory is left as it is
create_dir(dir) == IF dir = None THEN Some(EmptyDir) ELSE dir

\* ds.save_to_disk(cache_path), lines 66, 115 and 169: the directory holds ds
save_to_disk(dir, ds) == Some(ds)

\* the statement a call goes to once the data is in hand:
\* get_owid_co2_dataset and get_countries_of_world_dataset create the
\* directory before they save, get_sustainable_energy_dataset saves at once
after_download(loader) ==
  IF loader = "sustainable_energy" THEN "save" ELSE "create_dir"

MaxCalls == 3

MaxVersions == 2

SampleArgs == { None, Some(0), Some(2) }

NoCall ==
  [ pc |-> "idle", loader |-> "owid_co2", samples |-> None, existed |-> FALSE,
    ds |-> None, result |-> None, downloaded |-> FALSE, raised |-> None ]

InitCache ==
  /\ BaseIdle
  /\ Only_cache(
       Some([ disk |-> [ l \in Loaders |-> None ],
              first |-> [ l \in Loaders |-> None ],
              writes |-> [ l \in Loaders |-> 0 ],
              overlapped |-> [ l \in Loaders |-> FALSE ],
              save_failed |-> [ l \in Loaders |-> FALSE ],
              upstream |-> [ l \in Loaders |->
                               [ version |-> 1, rows |-> UpstreamRows ] ],
              calls |-> 0,
              runs |-> [ p \in Processes |-> NoCall ] ]))

\* process p is at statement pc of a loader
CallAt(p, pc) == cache # None /\ cache[1].runs[p].pc = pc

\* a call of the same loader is in progress in another process
Overlaps(p, l) ==
  \E q \in Processes \ { p } :
    /\ cache[1].runs[q].pc \notin { "idle", "done" }
    /\ cache[1].runs[q].loader = l

CacheTo(c) == cache' = Some(c) /\ UNCHANGED but_cache

\* a process calls a loader; overlapped records that a call of the loader
\* started while another call of it was in progress
CallLoader ==
  \E p \in Processes, l \in Loaders, samples \in SampleArgs :
    /\ cache # None
    /\ cache[1].runs[p].pc \in { "idle", "done" }
    /\ cache[1].calls < MaxCalls
    /\ CacheTo([ cache[1] EXCEPT
                   !.calls = @ + 1,
                   !.overlapped[l] = @ \/ Overlaps(p, l),
                   !.runs[p] = [ NoCall EXCEPT !.pc = "exists", !.loader = l,
                                               !.samples = samples ] ])

\* lines 50, 90 and 143: if os.path.exists(cache_path)
CheckCache ==
  \E p \in Processes :
    /\ CallAt(p, "exists")
    /\ LET l == cache[1].runs[p].loader
           found == cache_exists(cache[1].disk[l])
       IN CacheTo([ cache[1] EXCEPT
                      !.runs[p].existed = found,
                      !.runs[p].pc = IF found THEN "load" ELSE "download" ])

\* lines 51, 91 and 144: return hf_datasets.load_from_disk(cache_path)
LoadFromDisk ==
  \E p \in Processes :
    /\ CallAt(p, "load")
    /\ LET l == cache[1].runs[p].loader
           r == load_from_disk(cache[1].disk[l])
       IN CacheTo([ cache[1] EXCEPT
                      !.runs[p].result = r.result,
                      !.runs[p].raised = r.raised,
                      !.runs[p].pc = "done" ])

\* lines 57-63, 95-113 and 148-166: the data is downloaded and cut to the
\* sample size
Download ==
  \E p \in Processes :
    /\ CallAt(p, "download")
    /\ LET l == cache[1].runs[p].loader
       IN CacheTo([ cache[1] EXCEPT
                      !.runs[p].ds =
                        Some(head(cache[1].upstream[l], cache[1].runs[p].samples)),
                      !.runs[p].downloaded = TRUE,
                      !.runs[p].pc = after_download(l) ])

\* the download raises: the call ends and nothing is saved
DownloadFails ==
  \E p \in Processes :
    /\ CallAt(p, "download")
    /\ CacheTo([ cache[1] EXCEPT
                   !.runs[p].raised = Some("download error"),
                   !.runs[p].pc = "done" ])

\* lines 65 and 168: create_dir(cache_path)
CreateDir ==
  \E p \in Processes :
    /\ CallAt(p, "create_dir")
    /\ LET l == cache[1].runs[p].loader
       IN CacheTo([ cache[1] EXCEPT
                      !.disk[l] = create_dir(@),
                      !.runs[p].pc = "save" ])

\* lines 66-69, 115-118 and 169-172: ds.save_to_disk(cache_path); return ds
SaveToDisk ==
  \E p \in Processes :
    /\ CallAt(p, "save")
    /\ LET l == cache[1].runs[p].loader
           ds == cache[1].runs[p].ds[1]
       IN CacheTo([ cache[1] EXCEPT
                      !.disk[l] = save_to_disk(@, ds),
                      !.first[l] = IF @ = None THEN Some(ds) ELSE @,
                      !.writes[l] = @ + 1,
                      !.runs[p].result = Some(ds),
                      !.runs[p].pc = "done" ])

\* what ds.save_to_disk(cache_path) leaves behind when it raises (the disk
\* is full, the write is refused, the run is interrupted): the directory as
\* it was before the statement, which after create_dir is a directory
\* without a dataset, or a directory that the save has begun to fill
save_to_disk_raises(dir) == { dir, Some(EmptyDir) }

\* lines 66, 115 and 169: ds.save_to_disk(cache_path) raises; the loader
\* catches nothing, the call ends with the exception
SaveFails ==
  \E p \in Processes :
    /\ CallAt(p, "save")
    /\ LET l == cache[1].runs[p].loader
       IN \E left \in save_to_disk_raises(cache[1].disk[l]) :
            CacheTo([ cache[1] EXCEPT
                        !.disk[l] = left,
                        !.save_failed[l] = TRUE,
                        !.runs[p].raised = Some("OSError"),
                        !.runs[p].pc = "done" ])

\* the publisher releases new data
UpstreamChanges ==
  /\ cache # None
  /\ \E l \in Loaders :
       /\ cache[1].upstream[l].version < MaxVersions
       /\ CacheTo([ cache[1] EXCEPT
                      !.upstream[l] = [ version |-> @.version + 1,
                                        rows |-> @.rows + 1 ] ])

NextCache ==
  \/ CallLoader
  \/ CheckCache
  \/ LoadFromDisk
  \/ Download
  \/ DownloadFails
  \/ CreateDir
  \/ SaveToDisk
  \/ SaveFails
  \/ UpstreamChanges

SpecCache == InitCache /\ [][NextCache]_vars

(***************************************************************************)
(* The two cleaning functions on a frame with named columns.  A frame is   *)
(* [columns, rows]: the column names in order and, per row, the cells in   *)
(* column order.                                                           *)
(***************************************************************************)
EntityColumnNames == { "country", "entity", "country_name" }

\* variant: the column named by the argument is used
find_country_column_by_arg(columns, country_col) ==
  LET hits == { k \in 1..Len(columns) : columns[k] = country_col }
  IN IF hits = {} THEN None
     ELSE Some(CHOOSE k \in hits : \A h \in hits : k <= h)

\* for col in df.columns: if col.lower() in [...]: actual_col = col; break
\* (country_col is not read)
find_country_column(columns, country_col) ==
  LET hits == { k \in 1..Len(columns) : Lower(columns[k]) \in EntityColumnNames }
  IN IF hits = {} THEN None
     ELSE Some(CHOOSE k \in hits : \A h \in hits : k <= h)

\* the column k of a frame as rows of the entity column
EntityRows(df, k) == [ i \in 1..Len(df.rows) |-> Row(i, df.rows[i][k]) ]

\* df[~aggregate_mask], line 293, on a frame whose entity column holds
\* strings and missing values: the columns of the frame selected by the
\* mask.  A mask that is not empty holds booleans and selects rows; the mask
\* of a frame without rows is an empty object series, which pandas does not
\* take for a boolean indexer but for a list of column labels, an empty
\* one: the frame comes back without columns.
masked_columns(df) == IF Len(df.rows) = 0 THEN << >> ELSE df.columns

\* filter_aggregate_entities(df, country_col): arg is the caller's frame
\* after the call, df and stats are what is returned
filter_aggregate_entities_on(df, country_col) ==
  LET actual_col == find_country_column(df.columns, country_col)
  IN IF actual_col = None
     THEN [ arg |-> df, df |-> df,
            stats |-> [ filtered |-> FALSE,
                        reason |-> "No country column found" ] ]
     ELSE LET r == filter_aggregate_entities(EntityRows(df, actual_col[1]))
          IN [ arg |-> df,
               df |-> [ columns |-> masked_columns(df),
                        rows |-> [ i \in 1..Len(r.df) |-> df.rows[r.df[i].id] ] ],
               stats |-> [ filtered |-> TRUE,
                           column |-> df.columns[actual_col[1]],
                           original_rows |-> r.stats.original_rows,
                           filtered_rows |-> r.stats.filtered_rows ] ]

\* standardize_country_column(df, country_col)
standardize_country_column_on(df, country_col) ==
  LET actual_col == find_country_column(df.columns, country_col)
  IN IF actual_col = None
     THEN [ arg |-> df, df |-> df,
            stats |-> [ standardized |-> FALSE,
                        reason |-> "No country column found" ] ]
     ELSE LET r == standardize_country_column(EntityRows(df, actual_col[1]))
          IN [ arg |-> df,
               df |-> [ columns |-> df.columns,
                        rows |-> [ i \in 1..Len(df.rows) |->
                                     [ df.rows[i] EXCEPT
                                         ![actual_col[1]] = r.df[i].country ] ] ],
               stats |-> [ standardized |-> TRUE,
                           column |-> df.columns[actual_col[1]],
                           original_unique |-> r.stats.original_unique,
                           mapped_count |-> r.stats.mapped_count ] ]

MaxFrameRows == 2

MaxFrameColumns == 2

FrameColumnNames == { "Entity", "country", "name", "year" }

FrameCells == { Some("World"), Some("USA"), None }

\* frames of distinct columns; the columns hold the same values, each
\* column one row further round than the one before it
NamedFrames ==
  UNION { { [ columns |-> cols,
              rows |-> [ i \in 1..Len(vals) |->
                           [ c \in 1..w |->
                               vals[((i + c - 2) % Len(vals)) + 1] ] ] ] :
              cols \in { c \in [ 1..w -> FrameColumnNames ] :
                           \A a, b \in 1..w : c[a] = c[b] => a = b },
              vals \in UNION { [ 1..n -> FrameCells ] :
                                 n \in 0..MaxFrameRows } } :
          w \in 1..MaxFrameColumns }

InitResolve ==
  /\ BaseIdle
  /\ \E df \in NamedFrames, country_col \in { "country", "name", "Entity" },
        fn \in { "filter_aggregate_entities", "standardize_country_column" } :
       Only_resolving(Some([ fn |-> fn, df |-> df, country_col |-> country_col,
                             result |-> None ]))

ResolveCall(fn, r) ==
  /\ resolving # None
  /\ resolving[1].fn = fn
  /\ resolving[1].result = None
  /\ resolving' = Some([ resolving[1] EXCEPT !.result = Some(r) ])
  /\ UNCHANGED but_resolving

FilterAggregateEntitiesOn ==
  ResolveCall("filter_aggregate_entities",
              filter_aggregate_entities_on(resolving[1].df,
                                           resolving[1].country_col))

StandardizeCountryColumnOn ==
  ResolveCall("standardize_country_column",
              standardize_country_column_on(resolving[1].df,
                                            resolving[1].country_col))

NextResolve ==
  \/ FilterAggregateEntitiesOn
  \/ StandardizeCountryColumnOn

SpecResolve == InitResolve /\ [][NextResolve]_vars

(***************************************************************************)
(* Calls of the public methods of a ReportBuilder, in any order.            *)
(***************************************************************************)
MaxOps == 2

Captions == { None, Some(""), Some("CO2") }

\* the sizes of the frames handed to the table methods: around max_rows=30
FrameSizes == { 0, 2, 31 }

InitReport ==
  /\ BaseIdle
  /\ \E title \in { None, Some("Report") } : Only_report(Some(NewReport(title)))

\* the builder at the start of a call
Builder == [ report[1] EXCEPT !.raised = None ]

\* one public method is called on the builder; r is the builder when the
\* call has returned or raised
ReportOp(r) ==
  /\ report # None
  /\ report[1].ops < MaxOps
  /\ report' = Some([ r EXCEPT !.before = report[1].contents, !.ops = @ + 1 ])
  /\ UNCHANGED but_report

AddTable ==
  \E caption \in Captions, rows \in FrameSizes,
     max_rows \in { None, Some(0), Some(30) }, numeric \in BOOLEAN :
    /\ numeric => rows > 0
    /\ ReportOp(add_table(Builder, caption, rows, max_rows, numeric))

AddSimpleTable ==
  \E numeric \in BOOLEAN : ReportOp(add_simple_table(Builder, 2, numeric))

AddKeyValueTable ==
  \E title \in { None, Some("Summary") }, numeric \in BOOLEAN :
    ReportOp(add_key_value_table(Builder, 2, title, numeric))

AddFigure ==
  \E caption \in Captions, alt \in { None, Some("plot") } :
    ReportOp(add_figure(Builder, caption, alt,
                        IF alt = None THEN None ELSE Some("50%")))

AddDatasetOverview ==
  \E dtypes \in { 0, 2 } : ReportOp(add_dataset_overview(Builder, dtypes))

AddMissingSummary ==
  \E missing \in FrameSizes : ReportOp(add_missing_summary(Builder, missing))

AddStatisticsSummary ==
  \E columns \in { 0, 2 }, numeric \in BOOLEAN :
    /\ numeric => columns > 0
    /\ ReportOp(add_statistics_summary(Builder, columns, numeric,
                                       "Descriptive Statistics"))

AddCorrelationSummary ==
  \E above \in { 0, 2 } : ReportOp(add_correlation_summary(Builder, above))

AddValueCounts ==
  \E title \in { None, Some("Regions") }, values \in { None, Some(0), Some(2) } :
    ReportOp(add_value_counts(Builder, "region", values, title))

AddHeading == ReportOp(add_heading(Builder, "text"))

AddParagraph == ReportOp(add_paragraph(Builder, "text"))

AddText == ReportOp(add_text(Builder, "text"))

AddNewline == ReportOp(add_newline(Builder, 1))

AddSeparator == ReportOp(add_separator(Builder))

AddBullet == ReportOp(add_bullet(Builder, "text", 1))

AddNumbered == ReportOp(add_numbered(Builder, "text", 7))

AddCode == ReportOp(add_code(Builder, "text", "python"))

AddQuote == ReportOp(add_quote(Builder, "text"))

AddLink == ReportOp(add_link(Builder, "text", "url"))

AddBox ==
  \/ ReportOp(add_info_box(Builder, "text"))
  \/ ReportOp(add_warning_box(Builder, "text"))
  \/ ReportOp(add_success_box(Builder, "text"))
  \/ ReportOp(add_error_box(Builder, "text"))

AddCollapsible == ReportOp(add_collapsible(Builder, "title", "text", FALSE))

NextReport ==
  \/ AddTable
  \/ AddSimpleTable
  \/ AddKeyValueTable
  \/ AddFigure
  \/ AddDatasetOverview
  \/ AddMissingSummary
  \/ AddStatisticsSummary
  \/ AddCorrelationSummary
  \/ AddValueCounts
  \/ AddHeading
  \/ AddParagraph
  \/ AddText
  \/ AddNewline
  \/ AddSeparator
  \/ AddBullet
  \/ AddNumbered
  \/ AddCode
  \/ AddQuote
  \/ AddLink
  \/ AddBox
  \/ AddCollapsible

SpecReport == InitReport /\ [][NextReport]_vars

TypeOK ==
  /\ release \in Releases
  /\ names \in InputLists
  /\ Len(calls) <= Len(names)
  /\ \A i \in 1..Len(calls) : calls[i].original_name = names[i]
  /\ DOMAIN again \subseteq 1..Len(calls)
  /\ stage \in { "raw", "filtered", "standardized" }

(***************************************************************************)
(* Properties.                                                             *)
(***************************************************************************)
Called == 1..Len(calls)

\* C1: classify is total and never fails: every call made returns exactly
\* one of Aggregate, Country, Unrecognized (no error outcome), a Country
\* and only a Country carries a canonical name, and an Aggregate is never
\* also a Country or Unrecognized.
C1_ClassifyTotal ==
  \A i \in Called :
    LET c == calls[i] IN
      /\ c.tag \in Tags
      /\ Cardinality({ t \in Tags :
           \/ t = "Aggregate" /\ c.exit = "aggregate"
           \/ t = "Country" /\ c.canonical_name # None
           \/ t = "Unrecognized" /\ c.exit \in { "empty", "unmatched" } }) = 1
      /\ (c.tag = "Country") <=> (c.canonical_name # None)
      /\ (c.tag = "Aggregate") <=> (c.exit = "aggregate")

\* every name of the scenario list has been classified and all three
\* outcomes occurred
C1_Witness ==
  /\ names = Scenario1
  /\ Len(calls) = Len(names)
  /\ { calls[i].tag : i \in Called } = Tags

\* C2: every exact member of the AggregateSet classifies as Aggregate, and
\* once the aggregate filter has run no raw row carrying such a name is
\* left in the frame.
C2_AggregateSetMembers ==
  /\ \A i \in Called : names[i] \in AggregateSet => calls[i].tag = "Aggregate"
  /\ stage # "raw" =>
       \A i \in 1..Len(raw) :
         (raw[i].country # None /\ raw[i].country[1] \in AggregateSet)
           => \A j \in 1..Len(frame) : frame[j].id # raw[i].id

C2_Witness ==
  /\ stage = "filtered"
  /\ \E i \in Called : names[i] = "High income" /\ calls[i].tag = "Aggregate"
  /\ \E i \in 1..Len(raw) : raw[i].country = Some("High income")
  /\ Len(frame) < Len(raw)

\* C3: a name outside the keep-original set that matches an aggregate
\* pattern (case-insensitively) classifies as Aggregate, and an Aggregate
\* has consulted neither the alias table nor the authority and carries no
\* canonical name, ISO code or region.
C3_AggregatePriority ==
  \A i \in Called :
    LET c == calls[i] IN
      /\ ( /\ Strip(names[i]) \notin KEEP_ORIGINAL_NAMES
           /\ MatchesAggregatePattern(Strip(names[i])) )
           => c.tag = "Aggregate"
      /\ c.tag = "Aggregate" =>
           /\ c.steps = << "keep", "aggregate" >>
           /\ c.canonical_name = None
           /\ c.iso_alpha3 = None
           /\ c.region = None

C3_Witness ==
  \E i \in Called :
    /\ names[i] = "Europe (EXCL. Russia)"
    /\ calls[i].tag = "Aggregate"

\* C4: a keep-original name classifies as Country with the trimmed input
\* as canonical name, and the keep-original check is the only step the
\* call consults.
C4_KeepOriginal ==
  \A i \in Called :
    (names[i] # "" /\ Strip(names[i]) \in KEEP_ORIGINAL_NAMES) =>
      /\ calls[i].tag = "Country"
      /\ calls[i].canonical_name = Some(Strip(names[i]))
      /\ calls[i].steps = << "keep" >>

C4_Witness ==
  \E i \in Called :
    /\ names[i] = " Kosovo "
    /\ calls[i].canonical_name = Some("Kosovo")

\* C5: every key of the alias table classifies as Country with the mapped
\* value as canonical name, through the alias step.
C5_AliasKeys ==
  \A i \in Called :
    names[i] \in DOMAIN SIMPLE_COUNTRY_ALIASES =>
      /\ calls[i].tag = "Country"
      /\ calls[i].canonical_name = Some(SIMPLE_COUNTRY_ALIASES[names[i]])
      /\ calls[i].exit = "alias"

C5_Witness ==
  \E i \in Called :
    /\ names[i] = "USA"
    /\ calls[i].canonical_name = Some("United States")

\* C6: canonicalization is idempotent: classifying the canonical name of a
\* Country again yields Country with the same canonical name.
C6_IdempotentCountry ==
  \A i \in DOMAIN again :
    /\ again[i].tag = "Country"
    /\ again[i].canonical_name = calls[i].canonical_name

\* C7 (as claimed): an empty or whitespace-only name is Unrecognized and is
\* rejected before any of the keep-original, aggregate, alias and authority
\* steps is consulted.
C7_EmptyRejectedFirst ==
  \A i \in Called :
    Strip(names[i]) = "" =>
      /\ calls[i].tag = "Unrecognized"
      /\ calls[i].steps = <<>>

\* C7 (amended): an empty or whitespace-only name is Unrecognized; only
\* the empty string is rejected before the lookups, a whitespace-only name
\* is trimmed to the empty string, consults the four steps in order and
\* matches none of them.
C7_EmptyUnrecognized ==
  \A i \in Called :
    Strip(names[i]) = "" =>
      /\ calls[i].tag = "Unrecognized"
      /\ calls[i].canonical_name = None
      /\ calls[i].returned = ""
      /\ names[i] = "" => calls[i].steps = <<>>
      /\ names[i] # "" =>
           /\ calls[i].exit = "unmatched"
           /\ calls[i].steps = << "keep", "aggregate", "alias", "authority" >>

C7_Witness ==
  \E i \in Called :
    /\ names[i] = " \t"
    /\ calls[i].tag = "Unrecognized"
    /\ calls[i].exit = "unmatched"

\* the names of a bucket
Members(bucket) == { bucket[j] : j \in 1..Len(bucket) }

\* C8: validateEntities partitions its input: every name of the list is in
\* exactly the bucket of its classify tag, the buckets are pairwise
\* disjoint, the counts are the bucket lengths and sum to the length of the
\* list; the scenario list gives aggregates World and High income, valid
\* USA and France, invalid Atlantis.
C8_ValidatePartition ==
  buckets # None =>
    LET b == buckets[1] IN
      /\ \A i \in 1..Len(names) :
           /\ (names[i] \in Members(b.valid)) <=>
                (classify(names[i]).tag = "Country")
           /\ (names[i] \in Members(b.invalid)) <=>
                (classify(names[i]).tag = "Unrecognized")
           /\ (names[i] \in Members(b.aggregates)) <=>
                (classify(names[i]).tag = "Aggregate")
      /\ \A i \in Called :
           /\ calls[i].tag = "Country" => names[i] \in Members(b.valid)
           /\ calls[i].tag = "Unrecognized" => names[i] \in Members(b.invalid)
           /\ calls[i].tag = "Aggregate" => names[i] \in Members(b.aggregates)
      /\ Members(b.valid) \cap Members(b.invalid) = {}
      /\ Members(b.valid) \cap Members(b.aggregates) = {}
      /\ Members(b.invalid) \cap Members(b.aggregates) = {}
      /\ Members(b.valid) \cup Members(b.invalid) \cup Members(b.aggregates)
           = Members(names)
      /\ b.counts.valid = Len(b.valid)
      /\ b.counts.invalid = Len(b.invalid)
      /\ b.counts.aggregates = Len(b.aggregates)
      /\ b.counts.valid + b.counts.invalid + b.counts.aggregates = Len(names)
      /\ names = Scenario1 =>
           /\ b.aggregates = << "World", "High income" >>
           /\ b.valid = << "USA", "France" >>
           /\ b.invalid = << "Atlantis" >>

C8_Witness ==
  /\ names = Scenario1
  /\ buckets # None
  /\ buckets[1].counts = [ valid |-> 2, invalid |-> 1, aggregates |-> 2 ]
  /\ Len(calls) = Len(names)

\* C9: name variants converge: two alias keys with the same alias value,
\* and an alias key and its own canonical form, classify to the same
\* canonical name.
C9_VariantsConverge ==
  \A i \in Called :
    names[i] \in AliasKeys =>
      /\ \A k \in AliasKeys :
           SIMPLE_COUNTRY_ALIASES[k] = SIMPLE_COUNTRY_ALIASES[names[i]] =>
             classify(k).canonical_name = calls[i].canonical_name
      /\ i \in DOMAIN again =>
           again[i].canonical_name = calls[i].canonical_name

\* the outcome of classify for every base name, by installed release
ClassifiedIn ==
  [ rel \in Releases |->
      [ n \in BaseNames |->
          classify_path(n, safe_standardize_path_in(rel, n)) ] ]

\* the outcome of classify for every base name
Classified == ClassifiedIn[release]

\* line 129 of the alias table: the entry "Russia" is kept `as Russia, not
\* "Russian Federation"`; the authority name the comment sets the entry
\* against
KeptInsteadOf == ("Russia" :> "Russian Federation")

\* The authority country of a raw name, as C10 speaks of it: the ISO
\* alpha-3 codes of the records that the authority's exact-name match
\* finds for the trimmed raw name, that the outcome of classify carries,
\* and that the authority's exact-name match finds for the name the alias
\* table sets the entry against.  It is a relation on the data of the
\* authority and of the alias table, asked of every raw name alike, and
\* no step of safe_standardize_country_name: the function returns a
\* keep-original name, an aggregate and an alias value (lines 184-193)
\* without consulting the authority.
AuthorityCountry(name, outcome) ==
  LET n == Strip(name)
      named == { r.alpha_3 : r \in countries_get(n) }
      carried == IF outcome.iso_alpha3 = None THEN {}
                 ELSE { outcome.iso_alpha3[1] }
      set_against == IF n \in DOMAIN KeptInsteadOf
                     THEN { r.alpha_3 : r \in countries_get(KeptInsteadOf[n]) }
                     ELSE {}
  IN named \cup carried \cup set_against

\* AuthorityCountry of every base name, by release
AuthorityCountryIn ==
  [ rel \in Releases |->
      [ n \in BaseNames |-> AuthorityCountry(n, ClassifiedIn[rel][n]) ] ]

\* C10: each country has a single canonical string: two raw names that the
\* classifier resolves to the same authority country (the same ISO alpha-3
\* record), through the alias table or through the authority's exact-name
\* match, receive the same canonical name.
C10_SingleCanonicalName ==
  \A i \in Called :
    calls[i].tag = "Country" =>
      \A m \in BaseNames :
        ( /\ Classified[m].tag = "Country"
          /\ AuthorityCountry(names[i], calls[i])
                \cap AuthorityCountryIn[release][m] # {} )
          => Classified[m].canonical_name = calls[i].canonical_name

\* what holds instead: two names whose canonical names the exact lookup by
\* name finds in the authority, on one record, have one canonical name
SingleCanonicalByLookup ==
  \A i \in Called :
    (calls[i].tag = "Country" /\ calls[i].iso_alpha3 # None) =>
      \A m \in BaseNames :
        (Classified[m].tag = "Country"
           /\ Classified[m].iso_alpha3 = calls[i].iso_alpha3)
          => Classified[m].canonical_name = calls[i].canonical_name

\* an alias key and a differently spelled authority name met on one record
BurmaMeetsMyanmar ==
  \E i \in Called :
    /\ names[i] = "Burma"
    /\ calls[i].iso_alpha3 = Some("MMR")
    /\ Classified["Myanmar"].exit = "authority"
    /\ Classified["Myanmar"].iso_alpha3 = Some("MMR")
    /\ Classified["Myanmar"].canonical_name = calls[i].canonical_name

\* the rows of the raw frame whose country is missing or is no aggregate
KeptRows ==
  SelectSeq(raw, LAMBDA r : r.country = None \/ ~is_aggregate(r.country[1]))

\* C19: filter_aggregate_entities removes exactly the aggregate rows: its
\* output is, in the original order, the rows whose country is missing or
\* is not an aggregate; a row with a missing country is never removed;
\* filtered_rows + removed_rows = original_rows; removed_entities is the
\* sorted list of the distinct aggregate names found.
C19_FilterExact ==
  stats.aggregate_filtering # None =>
    LET s == stats.aggregate_filtering[1]
        found == { raw[i].country[1] :
                     i \in { j \in 1..Len(raw) :
                               /\ raw[j].country # None
                               /\ is_aggregate(raw[j].country[1]) } }
    IN /\ stage = "filtered" => frame = KeptRows
       /\ \A i \in 1..Len(raw) :
            raw[i].country = None =>
              \E j \in 1..Len(frame) :
                frame[j].id = raw[i].id /\ frame[j].country = None
       /\ s.original_rows = Len(raw)
       /\ s.filtered_rows = Len(KeptRows)
       /\ s.filtered_rows + s.removed_rows = s.original_rows
       /\ { s.removed_entities[i] : i \in 1..Len(s.removed_entities) } = found
       /\ \A i \in 1..Len(s.removed_entities) :
            \A j \in (i + 1)..Len(s.removed_entities) :
              StrLess(s.removed_entities[i], s.removed_entities[j])
       /\ s.removed_count = Cardinality(found)

\* the scenario list behind a row of missing country has been filtered:
\* two aggregate rows are gone, the missing row and the others stay
C19_Witness ==
  /\ stage = "filtered"
  /\ raw = RawFrame(Scenario1, TRUE)
  /\ [ i \in 1..Len(frame) |-> frame[i].id ] = << 1, 3, 4, 6 >>
  /\ stats.aggregate_filtering[1].removed_entities = << "High income", "World" >>
  /\ stats.aggregate_filtering[1].removed_rows = 2

\* the row of the raw frame that a row of the current frame descends from
RawOf(row) == raw[CHOOSE i \in 1..Len(raw) : raw[i].id = row.id]

\* C14: in safe mode an unmatched name is returned unchanged: for every
\* input that is no keep-original name, aggregate, alias key or authority
\* name, the value returned, and stored by standardize_country_column, is
\* character for character the input string, surrounding whitespace
\* included.
C14_UnmatchedUnchanged ==
  /\ \A i \in Called :
       calls[i].exit = "unmatched" => calls[i].returned = names[i]
  /\ stage = "standardized" =>
       \A j \in 1..Len(frame) :
         LET c == RawOf(frame[j]).country IN
           (c # None /\ safe_standardize_path(c[1]).exit = "unmatched")
             => frame[j].country = c

\* s without leading or trailing whitespace
Trimmed(s) ==
  s = "" \/ ( /\ CharAt(s, 1) \notin Whitespace
              /\ CharAt(s, Len(s)) \notin Whitespace )

\* t is s with whitespace taken off both ends and nothing else changed
TrimOf(s, t) ==
  /\ Trimmed(t)
  /\ \E a \in 0..(Len(s) - Len(t)) :
       /\ SubSeq(s, a + 1, a + Len(t)) = t
       /\ \A i \in (1..a) \cup ((a + Len(t) + 1)..Len(s)) :
            CharAt(s, i) \in Whitespace

\* what the code does instead: an unmatched name is returned with its
\* surrounding whitespace removed and otherwise unchanged; the caller
\* stores that trimmed string, which is the input itself exactly when the
\* input has no surrounding whitespace
UnmatchedTrimmed ==
  /\ \A i \in Called :
       calls[i].exit = "unmatched" =>
         /\ TrimOf(names[i], calls[i].returned)
         /\ calls[i].steps = << "keep", "aggregate", "alias", "authority" >>
         /\ Trimmed(names[i]) <=> (calls[i].returned = names[i])
  /\ stage = "standardized" =>
       \A j \in 1..Len(frame) :
         LET c == RawOf(frame[j]).country IN
           (c # None /\ safe_standardize_path(c[1]).exit = "unmatched")
             => /\ frame[j].country # None
                /\ TrimOf(c[1], frame[j].country[1])

\* an unmatched name with whitespace around it has been classified and
\* standardized in the frame: what is stored differs from what was read
AtlantisStoredTrimmed ==
  /\ stage = "standardized"
  /\ \E i \in Called :
       /\ names[i] = " Atlantis "
       /\ calls[i].exit = "unmatched"
       /\ calls[i].returned = "Atlantis"
  /\ \E j \in 1..Len(frame) :
       /\ RawOf(frame[j]).country = Some(" Atlantis ")
       /\ frame[j].country = Some("Atlantis")
  /\ << " Atlantis ", "Atlantis" >> \in stats.country_standardization[1].mappings

\* what a classification says about a name, apart from the name itself
Outcome(c) ==
  [ tag |-> c.tag, returned |-> c.returned, canonical_name |-> c.canonical_name,
    iso_alpha3 |-> c.iso_alpha3, region |-> c.region ]

\* the keys of the keep-original set and the alias table, in lower case
LowerKeys == { Lower(k) : k \in KEEP_ORIGINAL_NAMES \cup AliasKeys }

\* C15: classification is invariant under leading and trailing whitespace
\* and case-sensitive on the exact-match paths: classify(n) and
\* classify(trim(n)) agree, and the keep-original and alias lookups match
\* only the exact trimmed spelling, never a key that differs in letter case.
C15_TrimInvariantCaseSensitive ==
  \A i \in Called :
    LET n == Strip(names[i]) IN
      /\ TrimOf(names[i], n)
      /\ Outcome(calls[i]) = Outcome(classify(n))
      /\ (calls[i].exit = "keep") <=> (n \in KEEP_ORIGINAL_NAMES)
      /\ calls[i].exit = "alias" =>
           /\ n \in AliasKeys
           /\ calls[i].returned = SIMPLE_COUNTRY_ALIASES[n]
      /\ (n \notin KEEP_ORIGINAL_NAMES \cup AliasKeys /\ Lower(n) \in LowerKeys)
           => calls[i].exit \notin { "keep", "alias" }

\* padded spellings reached the keep-original and alias entries, the
\* lower-case spellings of the same names reached neither
C15_Witness ==
  /\ names = Variants
  /\ Len(calls) = 4
  /\ calls[1].exit = "keep" /\ calls[1].returned = "Kosovo"
  /\ calls[2].exit = "unmatched" /\ calls[2].returned = "kosovo"
  /\ calls[3].exit = "alias" /\ calls[3].returned = "United States"
  /\ calls[4].exit = "unmatched" /\ calls[4].returned = "usa"

\* C20: after a cleaning function (aggregate filter, then country-name
\* standardization) no row of the cleaned frame has a country value that
\* is_aggregate recognizes: standardization never maps a surviving name
\* onto an aggregate name, be it through the alias table, the authority's
\* preferred form or the trimming of whitespace.
C20_NoAggregateAfterCleaning ==
  stage = "standardized" =>
    \A j \in 1..Len(frame) :
      frame[j].country # None => ~is_aggregate(frame[j].country[1])

\* the distinct non-missing country values that reach standardization
DistinctValues ==
  { KeptRows[i].country[1] :
      i \in { j \in 1..Len(KeptRows) : KeptRows[j].country # None } }

\* C17: within one stage the classifier is invoked once per distinct raw
\* entity value: a run of standardize_country_column over a column with d
\* distinct non-missing values makes d invocations, whatever the number of
\* rows.
C17_OncePerDistinctValue ==
  stage = "standardized" => Len(invoked) = Cardinality(DistinctValues)

\* C12: in deriveRegionColumn a row whose supplied ISO code is non-empty
\* gets RegionMap[iso] directly, whatever its name (absent when the code
\* is not in the map); only a row with no or an empty ISO code falls back
\* to classify(name) and the region of the ISO code found for it.  ISO
\* codes FRA, USA, NGA give Europe, North America, Africa.
C12_IsoFastPath ==
  regions # None =>
    /\ Len(regions[1]) = Len(names)
    /\ \A i \in 1..Len(names) :
         LET iso == IF isos = None THEN None ELSE isos[1][i] IN
           IF iso # None /\ iso # Some("")
           THEN regions[1][i] =
                  IF iso[1] \in DOMAIN RegionMap THEN Some(RegionMap[iso[1]])
                  ELSE None
           ELSE /\ regions[1][i] = classify(names[i]).region
                /\ i \in Called => regions[1][i] = calls[i].region
                /\ names[i] = "France" => regions[1][i] = Some("Europe")
                /\ names[i] = "USA" => regions[1][i] = Some("North America")
    /\ isos = Some(Scenario3Isos) =>
         regions[1] = << Some("Europe"), Some("North America"), Some("Africa") >>

\* a row named Atlantis with code NGA got Africa from the code, and a row
\* named France with no code got Europe through its name
C12_Witness ==
  /\ regions # None
  /\ names = << "Atlantis", "France" >>
  /\ isos = Some(<< Some("NGA"), None >>)
  /\ regions[1] = << Some("Africa"), Some("Europe") >>
  /\ Len(calls) = 2 /\ calls[1].tag = "Unrecognized"

\* C13: in the output of deriveRegionColumn every row whose entity name
\* classifies as Aggregate or Unrecognized has an absent region, for every
\* combination of name and ISO column contents.
C13_NonCountryNoRegion ==
  regions # None =>
    \A i \in Called :
      calls[i].tag \in { "Aggregate", "Unrecognized" } => regions[1][i] = None

\* C13 (amended): a row whose entity name classifies as Aggregate or
\* Unrecognized has an absent region when it has no usable ISO code (no ISO
\* column, or a missing or empty code); with a non-empty ISO code such a
\* row gets the region of that code, which is absent only when the code is
\* not in the RegionMap.
C13_NonCountryNoRegionWithoutIso ==
  regions # None =>
    \A i \in Called :
      calls[i].tag \in { "Aggregate", "Unrecognized" } =>
        LET iso == IF isos = None THEN None ELSE isos[1][i] IN
          IF iso = None \/ iso = Some("") THEN regions[1][i] = None
          ELSE (regions[1][i] = None) <=> (iso[1] \notin DOMAIN RegionMap)

\* an aggregate row without a code and an unrecognized row with an empty
\* code stay without region
C13_Witness ==
  /\ regions = Some(<< None, None >>)
  /\ names = << "World", "Atlantis" >>
  /\ isos = Some(<< None, Some("") >>)
  /\ Len(calls) = 2
  /\ calls[1].tag = "Aggregate" /\ calls[2].tag = "Unrecognized"

\* C16: the classifier is pure and safe under concurrency: no call ever
\* changes the AggregateSet, the alias table, the keep-original set or the
\* RegionMap, and under every interleaving of concurrent calls each call
\* returns what it returns when run alone.
C16_PureUnderInterleaving ==
  /\ tables = StaticTables
  /\ \A t \in Threads :
       threads[t].pc = "done" =>
         threads[t].result = Some(safe_standardize_country_name(threads[t].arg))

\* one call has returned through the alias table while the other, started
\* with it, has stripped its name and is about to read the keep-original set
C16_Witness ==
  /\ threads[1].pc = "done"
  /\ threads[1].arg = "USA"
  /\ threads[1].result = Some("United States")
  /\ threads[2].pc = "keep"
  /\ threads[2].arg = " Kosovo"
  /\ threads[2].name = "Kosovo"

\* C18: the pipeline is strictly sequential: a run of main.py runs stages
\* 0 to 9 in that order, each exactly once and each after the previous one
\* has returned, and the frame a stage receives is the one its predecessor
\* returned.
C18_StrictlySequential ==
  main.pc = "exit" =>
    /\ main.error = None
    /\ main.ran = [ k \in 1..Len(MainBody) |-> k - 1 ]
    /\ \A k \in 1..Len(MainBody) :
         /\ MainBody[k].stage = k - 1
         /\ MainBody[k].callee \in main.bound \cup { "step_00" }
         /\ k > 1 => MainBody[k].input = Some(MainBody[k - 1].stage)

\* the column is numeric, its name matches a percentage pattern and no
\* skip pattern, and its values all lie in the 0-1 range
FractionScaled(col) ==
  /\ col.numeric
  /\ \E p \in { "percent", "access", "_of_population" } :
       Contains(Lower(col.name), p)
  /\ ~\E s \in skip_patterns : Contains(Lower(col.name), s)
  /\ Present(col.values) # {}
  /\ \A v \in Present(col.values) : 0 <= v /\ v <= 1

\* C21: validate_ranges fixes fraction-scaled percentages: a numeric
\* column whose name contains 'percent', 'access' or '_of_population' (and
\* no skip pattern) and whose values all lie in the 0-1 range is returned
\* multiplied by 100, and the action 'Multiplied by 100 (was in 0-1 range)'
\* is recorded for it.
C21_FractionsScaled ==
  (ranges # None /\ ranges[1].result # None) =>
    LET in == ranges[1].df
        out == ranges[1].result[1]
    IN \A i \in 1..Len(in) :
         FractionScaled(in[i]) =>
           /\ \A k \in 1..Len(in[i].values) :
                in[i].values[k] # None =>
                  out.df[i].values[k] = Some(in[i].values[k][1] * 100)
           /\ \E d \in 1..Len(out.stats.details) :
                /\ out.stats.details[d].column = in[i].name
                /\ out.stats.details[d].action =
                     Some("Multiplied by 100 (was in 0-1 range)")

\* the value of the row with a given id in a frame
ValueOfId(df, id) == df[CHOOSE i \in 1..Len(df) : df[i].id = id].value

\* C22: impute_data applies interpolation within country, forward/backward
\* fill within country, regional median (only with a region column) and
\* global median in that order, each filling only cells still missing, and
\* no cell that was non-missing in the input is ever changed.
C22_NonMissingUntouched ==
  imputation # None =>
    \A i \in 1..Len(imputation[1].input) :
      LET row == imputation[1].input[i] IN
        row.value # None =>
          ValueOfId(imputation[1].df, row.id) = row.value

\* C23: after impute_data a column that had at least one non-missing value
\* has no missing value left, the stats satisfy imputed = missing_before -
\* missing_after with 0 <= missing_after <= missing_before, and a column
\* stays incomplete only if it was entirely missing.
C23_ColumnCompleted ==
  (imputation # None /\ imputation[1].stats # None) =>
    LET s == imputation[1].stats[1]
        had_value == \E i \in 1..Len(imputation[1].input) :
                       imputation[1].input[i].value # None
    IN /\ s.imputed = s.missing_before - s.missing_after
       /\ 0 <= s.missing_after
       /\ s.missing_after <= s.missing_before
       /\ had_value => s.missing_after = 0
       /\ s.missing_after = MissingCount(imputation[1].df)

\* C24: in the final frame of run_step_08 (the frame it writes and hands
\* to its return statement) every row has 2000 <= year <= 2020 and no
\* country has more than 30% of its key-column values missing; a country
\* at exactly 30% is kept, and countries_after + countries_excluded =
\* countries_before.
C24_CriteriaOnOutput ==
  (selection # None /\ selection[1].saved # None) =>
    LET out == selection[1].saved[1]
        in == selection[1].input
        s == selection[1].country_stats[1]
    IN /\ \A i \in 1..Len(out) :
            out[i].year >= min_year /\ out[i].year <= max_year
       /\ \A c \in CountriesOf(out) :
            missing_cells(out, c) * 100 <= max_missing_pct * group_size(out, c)
       /\ \A c \in CountriesOf(in) :
            missing_cells(in, c) * 100 = max_missing_pct * group_size(in, c)
              => c \in selection[1].valid
       /\ s.countries_after + s.countries_excluded = s.countries_before

\* the (country, year) key of a row, the year by its value
KeyOf(row) == << row.country, row.year.v >>

\* C25: merge_owid_sustainable is a left join: every (country, year) row of
\* the OWID frame appears in the merged frame, no merged row has a key
\* absent from OWID, merged_rows >= owid_rows, and merged_rows = owid_rows
\* whenever (country, year) is unique in the energy frame.
C25_LeftJoinKeepsOwid ==
  (merging # None /\ merging[1].result # None) =>
    LET o == merging[1].df_owid
        e == merging[1].df_energy
        m == merging[1].result[1].df
        s == merging[1].result[1].stats
    IN /\ \A i \in 1..Len(o) :
            \E j \in 1..Len(m) : KeyOf(m[j]) = KeyOf(o[i]) /\ m[j].co2 = o[i].co2
       /\ \A j \in 1..Len(m) : \E i \in 1..Len(o) : KeyOf(m[j]) = KeyOf(o[i])
       /\ s.merged_rows = Len(m)
       /\ s.owid_rows = Len(o)
       /\ s.merged_rows >= s.owid_rows
       /\ (\A i, j \in 1..Len(e) : KeyOf(e[i]) = KeyOf(e[j]) => i = j)
            => s.merged_rows = s.owid_rows

\* an OWID row without a match in the energy frame, beside one with a match
C25_Witness ==
  /\ merging # None
  /\ merging[1].result # None
  /\ LET m == merging[1].result[1].df
     IN /\ \E j \in 1..Len(m) : m[j].access = None
        /\ \E j \in 1..Len(m) : m[j].access # None

\* C26: run_step_06 is read-only with respect to the data: for every
\* input frame it returns that frame with unchanged rows, columns and
\* values; detecting outliers, listing extreme cases and writing reports
\* never removes or alters a record.
C26_ReadOnly ==
  outliers # None =>
    /\ outliers[1].df = outliers[1].input
    /\ outliers[1].pc \in { "returned", "raised" } =>
         outliers[1].result = Some(outliers[1].input)

\* the part of C26 that holds of every call: no statement of run_step_06
\* alters the frame, and a call that returns, returns the frame it was
\* given
FrameUntouched ==
  outliers # None =>
    /\ outliers[1].df = outliers[1].input
    /\ outliers[1].result # None => outliers[1].result[1] = outliers[1].input

\* a call on a frame with rows has ended: an outlier was flagged, extreme
\* cases were listed, the outputs were written and the report raised
Step06Raised ==
  /\ outliers # None
  /\ outliers[1].pc = "raised"
  /\ outliers[1].saved
  /\ \E i \in 1..Len(outliers[1].flagged[1]) : outliers[1].flagged[1][i]
  /\ \A k \in 1..Len(extreme_vars) :
       /\ outliers[1].extreme[1][k].var = extreme_vars[k]
       /\ outliers[1].extreme[1][k].cases # << >>
  /\ \E i \in 1..Len(outliers[1].extreme_csv[1]) :
       outliers[1].extreme_csv[1][i].source_variable = "gdp"
  /\ outliers[1].known[1] # << >>

\* a call has returned: the frame had no row
Step06Returned ==
  /\ outliers # None
  /\ outliers[1].pc = "returned"
  /\ outliers[1].result = Some(outliers[1].input)

\* C27: with overwrite=False huggingface_from_sqlite never overwrites or
\* deletes an existing cache: when out_dir exists at entry it returns the
\* dataset from disk without opening SQLite or writing; when out_dir
\* appears between the check and the final save it raises FileExistsError
\* and leaves out_dir untouched; the SQLite connection, once opened, is
\* closed on every exit path.
C27_CacheNeverOverwritten ==
  hf # None =>
    /\ (~hf[1].overwrite /\ hf[1].at_entry # None /\ hf[1].pc = "done") =>
         /\ hf[1].outcome = Some("load_from_disk")
         /\ ~hf[1].opened
         /\ ~hf[1].wrote
    /\ ~hf[1].overwrite => ~hf[1].overwritten
    /\ (~hf[1].overwrite /\ hf[1].out_dir = Some("other process")
          /\ hf[1].pc = "done")
         => hf[1].outcome \in { Some("FileExistsError"), Some("RuntimeError"),
                                Some("ValueError") }
    /\ hf[1].pc = "done" => hf[1].conn # "open"

\* a call that has returned or raised after its existence test found the
\* cache directory of its loader
ServedCalls ==
  { p \in Processes : cache[1].runs[p].pc = "done" /\ cache[1].runs[p].existed }

\* C28: the dataset loaders are cache-first and the cache is written once:
\* after any sequence of get_*_dataset calls (the calls of a loader coming
\* one after another), every call made while the cache directory exists
\* returns the dataset stored by the first call and downloads nothing,
\* whatever its samples argument.
C28_CacheFirst ==
  cache # None =>
    \A l \in { k \in Loaders : ~cache[1].overlapped[k] } :
      /\ cache[1].writes[l] <= 1
      /\ \A p \in ServedCalls :
           cache[1].runs[p].loader = l =>
             /\ cache[1].runs[p].result # None
             /\ cache[1].runs[p].result = cache[1].first[l]
             /\ ~cache[1].runs[p].downloaded

\* the same for a loader none of whose saves has raised: what holds of the
\* calls in sequence as long as every save_to_disk completes
CacheFirstWhenSaved ==
  cache # None =>
    \A l \in { k \in Loaders : ~cache[1].overlapped[k]
                                  /\ ~cache[1].save_failed[k] } :
      /\ cache[1].writes[l] <= 1
      /\ cache[1].disk[l] \notin { None, Some(EmptyDir) } =>
           cache[1].disk[l] = cache[1].first[l]
      /\ \A p \in ServedCalls :
           cache[1].runs[p].loader = l =>
             /\ cache[1].runs[p].result # None
             /\ cache[1].runs[p].result = cache[1].first[l]
             /\ ~cache[1].runs[p].downloaded

\* a call in sequence found the directory that an earlier call had created
\* and not filled, and ended with the exception of load_from_disk
ServedNothing ==
  /\ cache # None
  /\ \E p \in ServedCalls :
       /\ ~cache[1].overlapped[cache[1].runs[p].loader]
       /\ cache[1].runs[p].loader = "owid_co2"
       /\ cache[1].runs[p].result = None
       /\ cache[1].runs[p].raised = Some("FileNotFoundError")

\* the first column whose lower-cased name is an entity column name
FirstEntityColumn(columns) ==
  { k \in 1..Len(columns) :
      /\ Lower(columns[k]) \in { "country", "entity", "country_name" }
      /\ \A h \in 1..(k - 1) :
           Lower(columns[h]) \notin { "country", "entity", "country_name" } }

\* C29: filter_aggregate_entities and standardize_country_column work on the
\* first column whose lower-cased name is country, entity or country_name,
\* whatever country_col is; without such a column they return the data
\* unchanged with filtered / standardized = False and a reason; the
\* caller's frame is not mutated.
C29_ColumnFromNames ==
  (resolving # None /\ resolving[1].result # None) =>
    LET df == resolving[1].df
        r == resolving[1].result[1]
        done == IF resolving[1].fn = "filter_aggregate_entities"
                THEN r.stats.filtered ELSE r.stats.standardized
        entity == FirstEntityColumn(df.columns)
    IN /\ r.arg = df
       /\ entity = {} =>
            /\ ~done
            /\ r.stats.reason = "No country column found"
            /\ r.df = df
       /\ \A k \in entity :
            /\ done
            /\ r.stats.column = df.columns[k]
            /\ resolving[1].fn = "filter_aggregate_entities" =>
                 /\ r.df.rows =
                      RowsAt(df.rows,
                             { i \in 1..Len(df.rows) :
                                 \/ df.rows[i][k] = None
                                 \/ ~is_aggregate(df.rows[i][k][1]) })
                 /\ Len(df.rows) > 0 => r.df.columns = df.columns
            /\ resolving[1].fn = "standardize_country_column" =>
                 /\ r.df.columns = df.columns
                 /\ Len(r.df.rows) = Len(df.rows)
                 /\ \A i \in 1..Len(df.rows) :
                      /\ r.df.rows[i][k] = standardize_cell(df.rows[i][k])
                      /\ \A c \in 1..Len(df.columns) :
                           c # k => r.df.rows[i][c] = df.rows[i][c]

\* the entity column is not the one the argument names, and a row was
\* removed or renamed in it
C29_Witness ==
  /\ resolving # None
  /\ resolving[1].result # None
  /\ LET df == resolving[1].df
         r == resolving[1].result[1]
     IN /\ \E k \in FirstEntityColumn(df.columns) :
             df.columns[k] # resolving[1].country_col
        /\ \E c \in 1..Len(df.columns) :
             df.columns[c] = resolving[1].country_col
        /\ r.df # df

\* how often a method occurs among the calls
CountOf(cs, method) == Cardinality({ i \in 1..Len(cs) : cs[i] = method })

\* the numbers of the entries of the given kinds increase strictly
Increasing(contents, kinds) ==
  \A i, j \in 1..Len(contents) :
    ( /\ i < j
      /\ contents[i].kind \in kinds /\ contents[i].number # None
      /\ contents[j].kind \in kinds /\ contents[j].number # None )
      => contents[i].number[1] < contents[j].number[1]

\* C30: _table_count is the number of add_table invocations (direct or
\* through add_simple_table, add_key_value_table and the analysis
\* sections), _figure_count the number of add_figure invocations; the
\* 'Table n' and 'Figure n' numbers written increase strictly in document
\* order; no operation removes or reorders what was appended.
C30_NumberingMonotonic ==
  report # None =>
    LET r == report[1]
    IN /\ r._table_count = CountOf(r.calls, "add_table")
       /\ r._figure_count = CountOf(r.calls, "add_figure")
       /\ Increasing(r.contents, { "table_caption" })
       /\ Increasing(r.contents, { "figure_caption", "image", "img" })
       /\ Len(r.before) <= Len(r.contents)
       /\ SubSeq(r.contents, 1, Len(r.before)) = r.before

\* a captioned table numbered 3 after the two tables of an analysis section
C30_Witness ==
  /\ report # None
  /\ \E i \in 1..Len(report[1].contents) :
       /\ report[1].contents[i].kind = "table_caption"
       /\ report[1].contents[i].number = Some(3)
  /\ CountOf(report[1].calls, "add_dataset_overview") = 1

====
